---- MODULE Spec2Model ----
(***************************************************************************)
(* Budget parsing and projection engine of MoneyMageProto.                 *)
(*                                                                         *)
(* Conventions of the model                                                *)
(*   - a date is the tuple <<year, month, day>>;                           *)
(*   - a Python str is the sequence of its character codes, '' is <<>>;    *)
(*   - a spreadsheet cell holding the float n is <<n>>, the blank cell ''  *)
(*     is <<>> (so that cells of one column are comparable);               *)
(*   - floats are integers (amounts in whole currency units): sums are     *)
(*     exact, rounding of binary floating point is not modelled;           *)
(*   - None and '' are both the falsy <<>>.                                *)
(***************************************************************************)
EXTENDS Integers, Sequences, FiniteSets, TLC

VARIABLES
    today,            \* the wall clock date read by date.today()
    this_year,        \* the budget year given to update_budget
    transactions,     \* the transaction stream: columns Date, Amount, Category
    pc,               \* the operation that produced the current results
    category,         \* the category argument of the operation
    monthly_sums,     \* get_monthly_sums: the returned list of (month end, sum)
    expense,          \* get_quarterly_sums: the four-quarter plan argument
    spent,            \* get_quarterly_sums: returned list of (i, spent)
    remaining,        \* get_quarterly_sums: returned list of (i, remaining)
    category_types,   \* parse_budget: the Categories sheet
    expenses,         \* parse_budget: the Expenses sheet
    category_budget,  \* parse_budget: the ledger given to the parser
    parsed,           \* parse_budget: what the call returned
    previous,         \* parse_budget: what the call before the last one returned
    projection_list,  \* update_budget: the six columns of the collected events
    balance,          \* update_budget: the last balance of the Balances sheet
    projection_dict,  \* make_projection_dict: the returned projection
    monthly_sums_dict, \* make_projection_dict: the returned monthly sums by category
    ideal_dict,       \* update_budget: the returned ideal projection
    sheets,           \* update_budget: the ledger sheets of the workbook, by sheet name
    clock,            \* update_budget: the time of day of the run, (hour, minute, second)
    archive,          \* update_budget: the files of archive/, the contents by file name
    written,          \* update_budget: write_budget has overwritten the workbook
    categories,       \* update_budget: the categories the loop has still to visit
    budgets,          \* update_budget: the returned ledger of each visited category
    missing_budgets,  \* update_budget: the categories reported without a sheet
    diff_outs,        \* update_budget: the out-of-balance categories
    remaining_expenses, \* calculate_remaining_expenses_from_sheets: the returned table
    failure,          \* update_budget: the exception the run ended with
    arg_budget,       \* the ledger argument of the ledger functions
    ret_reconciled,   \* get_reconciled_budget: the returned ledger
    ret_forward,      \* get_forward_budget: the returned ledger
    ret_fixed,        \* remove_budget_integers: the returned ledger, or the error
    ret_projection    \* get_year_projection: the returned events

sumsVars == <<category, monthly_sums, expense, spent, remaining>>
parseVars == <<category_types, expenses, category_budget, parsed, previous>>
projVars == <<projection_list, balance, projection_dict, monthly_sums_dict, ideal_dict>>
updateVars ==
    <<sheets, clock, archive, written, categories, budgets, missing_budgets, diff_outs,
      remaining_expenses, failure>>
ledgerVars == <<arg_budget, ret_reconciled, ret_forward, ret_fixed, ret_projection>>
vars == <<today, this_year, transactions, pc, sumsVars, parseVars, projVars, updateVars, ledgerVars>>

-----------------------------------------------------------------------------
(* Bounds of the model *)

MaxTx == 2          \* most rows in the transaction stream
MaxRows == 2        \* most rows in a dated ledger (Loan and Default types)
MaxMinute == 1      \* the latest minute of the hour at which a run starts
MaxEvents == 3      \* most events in the projection list

-----------------------------------------------------------------------------
(* Strings *)

None == <<>>
Blank == <<>>
CatA == <<65>>      \* the category "A"
CatB == <<66>>      \* the category "B"

Truthy(x) == x # <<>>

Min(a, b) == IF a < b THEN a ELSE b
Max(a, b) == IF a < b THEN b ELSE a

\* the cell of a float, the float of a cell, the column of a list of floats
Cell(x) == <<x>>
CellVal(c) == c[1]
Cells(list) == [i \in 1..Len(list) |-> Cell(list[i])]

\* x in list
InList(x, list) == \E i \in 1..Len(list) : list[i] = x

Space == <<32>>
Hash == 35
S_Yearly == <<89, 101, 97, 114, 108, 121>>
S_Forecast == <<70, 111, 114, 101, 99, 97, 115, 116, 58>>
S_for == <<102, 111, 114>>
S_total == <<116, 111, 116, 97, 108>>
S_in == <<105, 110>>
S_Planned == <<80, 108, 97, 110, 110, 101, 100>>
S_Quarter == <<81, 117, 97, 114, 116, 101, 114>>
S_Month == <<77, 111, 110, 116, 104>>
S_Payment == <<80, 97, 121, 109, 101, 110, 116>>
S_is == <<105, 115>>
S_not == <<110, 111, 116>>
S_Date == <<68, 97, 116, 101>>
S_Category == <<67, 97, 116, 101, 103, 111, 114, 121>>
S_Expenses == <<69, 120, 112, 101, 110, 115, 101, 115>>
S_Categories == <<67, 97, 116, 101, 103, 111, 114, 105, 101, 115>>
S_Balances == <<66, 97, 108, 97, 110, 99, 101, 115>>
S_sheet == <<115, 104, 101, 101, 116>>

\* date.strftime("%B")
MonthName(m) ==
    << <<74, 97, 110, 117, 97, 114, 121>>,
       <<70, 101, 98, 114, 117, 97, 114, 121>>,
       <<77, 97, 114, 99, 104>>,
       <<65, 112, 114, 105, 108>>,
       <<77, 97, 121>>,
       <<74, 117, 110, 101>>,
       <<74, 117, 108, 121>>,
       <<65, 117, 103, 117, 115, 116>>,
       <<83, 101, 112, 116, 101, 109, 98, 101, 114>>,
       <<79, 99, 116, 111, 98, 101, 114>>,
       <<78, 111, 118, 101, 109, 98, 101, 114>>,
       <<68, 101, 99, 101, 109, 98, 101, 114>> >>[m]

\* str(n) for a natural number n
RECURSIVE Str(_)
Str(n) == IF n < 10 THEN <<48 + n>> ELSE Str(n \div 10) \o <<48 + (n % 10)>>

\* ' '.join(words)
RECURSIVE Join(_)
Join(words) ==
    IF words = <<>> THEN <<>>
    ELSE IF Len(words) = 1 THEN words[1]
    ELSE words[1] \o Space \o Join(Tail(words))

\* x.split(): the maximal runs of non-blank characters
RECURSIVE SplitFrom(_, _, _)
SplitFrom(x, i, word) ==
    IF i > Len(x) THEN (IF word = <<>> THEN <<>> ELSE <<word>>)
    ELSE IF x[i] = 32
         THEN (IF word = <<>> THEN <<>> ELSE <<word>>) \o SplitFrom(x, i + 1, <<>>)
         ELSE SplitFrom(x, i + 1, Append(word, x[i]))

Split(x) == SplitFrom(x, 1, <<>>)

\* list(dict.fromkeys(words)): the first occurrence of every word, in order
RECURSIVE FromKeys(_, _)
FromKeys(words, seen) ==
    IF words = <<>> THEN <<>>
    ELSE IF Head(words) \in seen THEN FromKeys(Tail(words), seen)
    ELSE <<Head(words)>> \o FromKeys(Tail(words), seen \cup {Head(words)})

\* sub in x, for strings
Contains(x, sub) ==
    \E i \in 0..(Len(x) - Len(sub)) : \A j \in 1..Len(sub) : x[i + j] = sub[j]

-----------------------------------------------------------------------------
(* Calendar: datetime.date *)

Year(d) == d[1]
Month(d) == d[2]
Day(d) == d[3]

IsLeap(y) == (y % 4 = 0 /\ y % 100 # 0) \/ y % 400 = 0

DaysInMonth(y, m) ==
    IF m = 2 THEN (IF IsLeap(y) THEN 29 ELSE 28)
    ELSE IF m \in {4, 6, 9, 11} THEN 30 ELSE 31

\* date - timedelta(days=1)
MinusOneDay(d) ==
    IF Day(d) > 1 THEN <<Year(d), Month(d), Day(d) - 1>>
    ELSE IF Month(d) > 1 THEN <<Year(d), Month(d) - 1, DaysInMonth(Year(d), Month(d) - 1)>>
    ELSE <<Year(d) - 1, 12, 31>>

\* date.__lt__
DateLess(a, b) ==
    \/ Year(a) < Year(b)
    \/ Year(a) = Year(b) /\ Month(a) < Month(b)
    \/ Year(a) = Year(b) /\ Month(a) = Month(b) /\ Day(a) < Day(b)

DateLeq(a, b) == a = b \/ DateLess(a, b)

-----------------------------------------------------------------------------
(* utilities.py *)

\* sum(list) of a list of floats
RECURSIVE SumSeq(_)
SumSeq(s) == IF s = <<>> THEN 0 ELSE Head(s) + SumSeq(Tail(s))

end_of_month(my_date) ==
    MinusOneDay(<<Year(my_date) + (Month(my_date) \div 12), (Month(my_date) % 12) + 1, 1>>)

in_this_month(my_date, this_date) ==
    Year(my_date) = Year(this_date) /\ Month(my_date) = Month(this_date)

\* a float or an int cell keeps its value, anything else becomes 0.0
remove_list_blanks(my_list) ==
    [i \in 1..Len(my_list) |-> IF Len(my_list[i]) = 1 THEN my_list[i][1] ELSE 0]

\* range_eom_dates with the last month left out (end_months without the + 1)
range_eom_dates_exclusive(first_date, last_date) ==
    LET start_month == Month(first_date)
        end_months == (Year(last_date) - Year(first_date)) * 12 + Month(last_date)
        n == IF end_months > start_month THEN end_months - start_month ELSE 0
    IN  [k \in 1..n |->
            LET m == start_month + k - 1
            IN  end_of_month(<<((m - 1) \div 12) + Year(first_date), ((m - 1) % 12) + 1, 1>>)]

range_eom_dates(first_date, last_date) ==
    LET start_month == Month(first_date)
        end_months == (Year(last_date) - Year(first_date)) * 12 + Month(last_date) + 1
        n == IF end_months > start_month THEN end_months - start_month ELSE 0
    IN  [k \in 1..n |->
            LET m == start_month + k - 1
            IN  end_of_month(<<((m - 1) \div 12) + Year(first_date), ((m - 1) % 12) + 1, 1>>)]

-----------------------------------------------------------------------------
(* get_sums.py *)

\* list.sort() of a list of dates (insertion into the sorted prefix)
RECURSIVE InsertDate(_, _)
InsertDate(d, s) ==
    IF s = <<>> THEN <<d>>
    ELSE IF DateLess(d, Head(s)) THEN <<d>> \o s
    ELSE <<Head(s)>> \o InsertDate(d, Tail(s))

RECURSIVE SortDates(_)
SortDates(s) == IF s = <<>> THEN <<>> ELSE InsertDate(Head(s), SortDates(Tail(s)))

\* the category filter with the comparison inverted
FilteredOut_inverted(cat, transactions_categories, d) ==
    Truthy(cat) /\ Truthy(transactions_categories) /\ cat = transactions_categories[d]

\* the row d is skipped by the category filter
FilteredOut(cat, transactions_categories, d) ==
    Truthy(cat) /\ Truthy(transactions_categories) /\ cat # transactions_categories[d]

\* indices of the month buckets that hold the date, in ascending order: the least one
FirstBucket(monthly_dates, transaction_date) ==
    LET i_month == {i \in 1..Len(monthly_dates) : in_this_month(transaction_date, monthly_dates[i])}
    IN  IF i_month = {} THEN 0 ELSE CHOOSE i \in i_month : \A j \in i_month : i <= j

\* the accumulation loop over the rows d..Len(dates)
RECURSIVE AccumulateMonths(_, _, _, _, _, _, _)
AccumulateMonths(d, sums, cat, dates, amounts_in, transactions_categories, monthly_dates) ==
    IF d > Len(dates) THEN sums
    ELSE LET b == FirstBucket(monthly_dates, dates[d])
             next == IF FilteredOut(cat, transactions_categories, d) \/ b = 0
                     THEN sums
                     ELSE [sums EXCEPT ![b] = @ + amounts_in[d]]
         IN  AccumulateMonths(d + 1, next, cat, dates, amounts_in, transactions_categories, monthly_dates)

\* get_monthly_sums raises when a date cell is not a date: sorting a list
\* that mixes '' and dates fails and leaves it as it is, so first_date.month,
\* last_date.year or transaction_date.year is read from a str
get_monthly_sums_raises(dates) == \E i \in 1..Len(dates) : dates[i] = Blank

get_monthly_sums(cat, dates, amounts, transactions_categories) ==
    IF dates = <<>> THEN <<>>
    ELSE LET dates_sorted == SortDates(dates)
             monthly_dates == range_eom_dates(dates_sorted[1], dates_sorted[Len(dates_sorted)])
             amounts_in == remove_list_blanks(amounts)
             sums == AccumulateMonths(1, [i \in 1..Len(monthly_dates) |-> 0], cat, dates,
                                      amounts_in, transactions_categories, monthly_dates)
         IN  [i \in 1..Len(monthly_dates) |-> <<monthly_dates[i], sums[i]>>]

quarterly_months == << {1, 2, 3}, {4, 5, 6}, {7, 8, 9}, {10, 11, 12} >>

\* [i for i, x in enumerate(quarterly_months) if month in x][0]
QuarterOf(month) == (CHOOSE i \in 1..4 : month \in quarterly_months[i]) - 1

RECURSIVE AccumulateQuarters(_, _, _, _, _, _)
AccumulateQuarters(d, sums, cat, dates, amounts, transactions_categories) ==
    IF d > Len(dates) THEN sums
    ELSE LET next == IF FilteredOut(cat, transactions_categories, d)
                     THEN sums
                     ELSE [sums EXCEPT ![QuarterOf(Month(dates[d])) + 1] = @ + CellVal(amounts[d])]
         IN  AccumulateQuarters(d + 1, next, cat, dates, amounts, transactions_categories)

quarterly_spent(cat, dates, amounts, transactions_categories) ==
    LET quarterly_sums == AccumulateQuarters(1, <<0, 0, 0, 0>>, cat, dates, amounts,
                                             transactions_categories)
    IN  [i \in 1..4 |-> <<i - 1, quarterly_sums[i]>>]

\* quarterly_remaining that carries a closed quarter's unspent plan forward
quarterly_remaining_rollover(spent_list, plan, now) ==
    LET this_quarter == QuarterOf(Month(now))
    IN  [k \in 1..4 |->
            LET i == k - 1
            IN  IF i = this_quarter
                THEN (IF spent_list[k][2] < plan[k] THEN <<i, 0>>
                      ELSE <<i, plan[k] - spent_list[k][2]>>)
                ELSE IF i < this_quarter THEN <<i, plan[k] - spent_list[k][2]>>
                ELSE <<i, plan[k] - spent_list[k][2]>>]

\* quarterly_remaining without the clamp of the current quarter
quarterly_remaining_unclamped(spent_list, plan, now) ==
    LET this_quarter == QuarterOf(Month(now))
    IN  [k \in 1..4 |->
            LET i == k - 1
            IN  IF i = this_quarter THEN <<i, plan[k] - spent_list[k][2]>>
                ELSE IF i < this_quarter THEN <<i, 0>>
                ELSE <<i, plan[k]>>]

quarterly_remaining(spent_list, plan, now) ==
    LET this_quarter == QuarterOf(Month(now))
    IN  [k \in 1..4 |->
            LET i == k - 1
            IN  IF i = this_quarter
                THEN (IF spent_list[k][2] < plan[k] THEN <<i, 0>>
                      ELSE <<i, plan[k] - spent_list[k][2]>>)
                ELSE IF i < this_quarter THEN <<i, 0>>
                ELSE <<i, plan[k]>>]

\* returns (spent, remaining)
get_quarterly_sums(cat, dates, amounts, transactions_categories, plan, now) ==
    LET s == quarterly_spent(cat, dates, amounts, transactions_categories)
    IN  <<s, quarterly_remaining(s, plan, now)>>

-----------------------------------------------------------------------------
(* Ledgers: a dict of columns is a function from the column name to the    *)
(* list of its cells                                                       *)

EmptyDict == <<>>

Put(d, key, column) == (key :> column) @@ d

\* the elements of a finite set of numbers as an ascending list
RECURSIVE Ascending(_)
Ascending(S) ==
    IF S = {} THEN <<>>
    ELSE LET lo == CHOOSE x \in S : \A y \in S : x <= y
         IN  <<lo>> \o Ascending(S \ {lo})

\* [key_list[i] for i in indices]
Pick(key_list, indices) == [k \in 1..Len(indices) |-> key_list[indices[k]]]

\* utilities.make_dict_list_same_len
make_dict_list_same_len(my_dict) ==
    LET lens == {Len(my_dict[k]) : k \in DOMAIN my_dict}
        longest_len == CHOOSE n \in lens : \A m \in lens : m <= n
    IN  [k \in DOMAIN my_dict |->
            [i \in 1..longest_len |-> IF i <= Len(my_dict[k]) THEN my_dict[k][i] ELSE Blank]]

-----------------------------------------------------------------------------
(* budget_functions.py *)

\* the values of a sheet cell other than a float <<n>> and the empty str '':
\* an int, an int too large for a float (2**1024 and beyond), a str that is
\* not empty, None
PyInt(n) == <<"int", n>>
PyBigInt == <<"bigint", 0>>
PyStr(chars) == <<"str", chars>>
PyNone == <<"None", 0>>

\* str.strip() of the blanks
RECURSIVE Strip(_)
Strip(x) ==
    IF x = <<>> THEN x
    ELSE IF Head(x) = 32 THEN Strip(Tail(x))
    ELSE IF x[Len(x)] = 32 THEN Strip(SubSeq(x, 1, Len(x) - 1))
    ELSE x

IsDigits(x) == \A i \in 1..Len(x) : x[i] \in 48..57

\* int(x) of a string of digits
RECURSIVE DigitsValue(_)
DigitsValue(x) ==
    IF x = <<>> THEN 0 ELSE 10 * DigitsValue(SubSeq(x, 1, Len(x) - 1)) + (x[Len(x)] - 48)

\* float(x) of a str: blanks around, a sign, digits, a point and digits; the
\* numbers of the model are whole, so are the decimals it reads; the words
\* nan, inf and infinity and the exponents are not among its strings
ParseFloat(x) ==
    LET stripped == Strip(x)
        signed == stripped # <<>> /\ Head(stripped) \in {43, 45}
        unsigned == IF signed THEN Tail(stripped) ELSE stripped
        points == {i \in 1..Len(unsigned) : unsigned[i] = 46}
        point == IF points = {} THEN Len(unsigned) + 1 ELSE CHOOSE i \in points : TRUE
        whole == SubSeq(unsigned, 1, point - 1)
        fraction == SubSeq(unsigned, point + 1, Len(unsigned))
        well_formed == /\ Cardinality(points) <= 1
                       /\ IsDigits(whole) /\ IsDigits(fraction)
                       /\ Len(whole) + Len(fraction) > 0
                       /\ \A i \in 1..Len(fraction) : fraction[i] = 48
        value == DigitsValue(whole)
    IN  IF ~well_formed THEN <<"ValueError", 0>>
        ELSE <<"float", IF signed /\ Head(stripped) = 45 THEN 0 - value ELSE value>>

\* float(val): the float, or the exception it raises
Float(val) ==
    IF Len(val) = 0 THEN <<"ValueError", 0>>
    ELSE IF Len(val) = 1 THEN <<"float", val[1]>>
    ELSE IF val[1] = "int" THEN <<"float", val[2]>>
    ELSE IF val[1] = "bigint" THEN <<"OverflowError", 0>>
    ELSE IF val[1] = "str" THEN ParseFloat(val[2])
    ELSE <<"TypeError", 0>>

a_types == {"Amount", "Payment", "Planned", "This Year", "Next Year"}

\* remove_budget_integers raises: float() raises what the except clause does
\* not catch
remove_budget_integers_raises(category_budget_in) ==
    \E a_type \in a_types \cap DOMAIN category_budget_in :
        \E i \in 1..Len(category_budget_in[a_type]) :
            Float(category_budget_in[a_type][i])[1] \notin {"float", "ValueError", "TypeError"}

\* new_values.append(float(val)), or 0.0 after a ValueError or a TypeError
Coerced(val) == IF Float(val)[1] = "float" THEN Cell(Float(val)[2]) ELSE Cell(0)

remove_budget_integers(category_budget_in) ==
    [key \in DOMAIN category_budget_in |->
        IF key \in a_types
        THEN [i \in 1..Len(category_budget_in[key]) |-> Coerced(category_budget_in[key][i])]
        ELSE category_budget_in[key]]

get_reconciled_budget(budget) ==
    LET i_reconciled == Ascending({i \in 1..Len(budget["R"]) : budget["R"][i] # Blank})
    IN  [key \in DOMAIN budget |-> Pick(budget[key], i_reconciled)]

\* every row taken for a forward row
get_forward_budget_all(budget) == budget

get_forward_budget(budget) ==
    IF budget = EmptyDict THEN budget
    ELSE IF budget["R"] = <<>> THEN budget
    ELSE LET i_not_reconciled == Ascending({i \in 1..Len(budget["R"]) : budget["R"][i] = Blank})
         IN  [key \in DOMAIN budget |-> Pick(budget[key], i_not_reconciled)]

\* the first sum of the list whatever its date
SumAt_first(sums, x) == IF sums = <<>> THEN 0 ELSE sums[1][2]

\* [y[1] for y in sums if y[0] == x][0] if there is one, else 0.0
SumAt(sums, x) ==
    LET hits == {j \in 1..Len(sums) : sums[j][1] = x}
    IN  IF hits = {} THEN 0 ELSE sums[CHOOSE j \in hits : \A k \in hits : j <= k][2]

\* a > b for (date, amount) tuples
PairGreater(a, b) == DateLess(b[1], a[1]) \/ (a[1] = b[1] /\ a[2] > b[2])

make_monthly_table(actual_monthly_sums, all_planned_monthly_sums_in, reconciled_monthly_sums, category_budget_in, year) ==
    LET all_planned_monthly_sums ==
            IF all_planned_monthly_sums_in = <<>>
            THEN LET this_years_dates == range_eom_dates(<<year, 1, 1>>, <<year, 12, 31>>)
                 IN  [i \in 1..Len(this_years_dates) |-> <<this_years_dates[i], 0>>]
            ELSE all_planned_monthly_sums_in
        last_planned == all_planned_monthly_sums[Len(all_planned_monthly_sums)]
        first_date == IF actual_monthly_sums = <<>> THEN all_planned_monthly_sums[1][1]
                      ELSE actual_monthly_sums[1][1]
        last_date == IF actual_monthly_sums = <<>> THEN last_planned[1]
                     ELSE IF PairGreater(actual_monthly_sums[Len(actual_monthly_sums)], last_planned)
                          THEN actual_monthly_sums[Len(actual_monthly_sums)][1]
                          ELSE last_planned[1]
        all_months == range_eom_dates(first_date, last_date)
        Actual == [i \in 1..Len(all_months) |-> SumAt(actual_monthly_sums, all_months[i])]
        Reconciled == [i \in 1..Len(all_months) |-> SumAt(reconciled_monthly_sums, all_months[i])]
        Difference == [i \in 1..Len(all_months) |-> Actual[i] - Reconciled[i]]
        Planned == [i \in 1..Len(all_months) |-> SumAt(all_planned_monthly_sums, all_months[i])]
    IN  make_dict_list_same_len(
            Put(Put(Put(Put(Put(category_budget_in,
                "End of Month", all_months),
                "Actual", Cells(Actual)),
                "Reconciled", Cells(Reconciled)),
                "Difference", Cells(Difference)),
                "Planned", Cells(Planned)))

\* a projection event: [date, description, amount, category, balance, note]
Event(date, desc, amount, cat, note) == <<date, desc, amount, cat, 0, note>>

\* the events of amount 0.0 kept
NonZero_all(events) == events

NonZero(events) == SelectSeq(events, LAMBDA x : x[3] # 0)

get_year_projection(cat, forward_category_budget, actual_monthly_sums) ==
    LET this_key == IF "Payment" \in DOMAIN forward_category_budget THEN "Payment" ELSE "This Year"
        future_transactions ==
            [i \in 1..Len(forward_category_budget["Date"]) |->
                LET x == forward_category_budget["Date"][i]
                IN  Event(x,
                          Join(<<forward_category_budget["Desc."][i], S_in, MonthName(Month(x)),
                                 Str(Year(x))>>),
                          CellVal(forward_category_budget[this_key][i]), cat,
                          forward_category_budget["Note"][i])]
        actual_monthly_totals ==
            [i \in 1..Len(actual_monthly_sums) |->
                LET x == actual_monthly_sums[i]
                IN  Event(x[1], Join(<<cat, S_total, S_for, MonthName(Month(x[1])), Str(Year(x[1]))>>),
                          x[2], cat, Blank)]
    IN  NonZero(actual_monthly_totals) \o NonZero(future_transactions)

\* the result of a parser: the exception flag, the message of the exception
\* if a raise statement made it ('' for the errors the interpreter raises)
\* and the returned triple
Raised == [raised |-> TRUE, message |-> Blank, budget |-> EmptyDict, year_projection |-> <<>>,
           multi_year_projection |-> <<>>]

\* raise Exception(message)
RaisedMessage(message) == [Raised EXCEPT !.message = message]

Returned(budget, year_projection, multi_year_projection) ==
    [raised |-> FALSE, message |-> Blank, budget |-> budget, year_projection |-> year_projection,
     multi_year_projection |-> multi_year_projection]

HasKeys(d, keys) == keys \subseteq DOMAIN d

\* the message without the category
PaymentMessage_anonymous(cat) == Join(<<S_Payment, S_is, S_not, S_in>>)

\* f'Payment is not in {category}'
PaymentMessage(cat) == Join(<<S_Payment, S_is, S_not, S_in, cat>>)

\* f'Date not in {category}'
DateMessage(cat) == Join(<<S_Date, S_not, S_in, cat>>)

\* f'Category {category} not in Expenses sheet'
ExpensesMessage(cat) == Join(<<S_Category, cat, S_not, S_in, S_Expenses, S_sheet>>)

parse_loan_budget(cat, category_budget_in, actual_monthly_sums, year) ==
    IF "Payment" \notin DOMAIN category_budget_in
    THEN RaisedMessage(PaymentMessage(cat))
    ELSE IF ~HasKeys(category_budget_in, {"R", "Date", "Desc.", "Note"}) THEN Raised
    ELSE IF get_monthly_sums_raises(category_budget_in["Date"]) THEN Raised
    ELSE
    LET forward_category_budget == get_forward_budget(category_budget_in)
        reconciled_category_budget == get_reconciled_budget(category_budget_in)
        all_planned_monthly_sums ==
            get_monthly_sums(None, category_budget_in["Date"], category_budget_in["Payment"], None)
        reconciled_monthly_sums ==
            get_monthly_sums(None, reconciled_category_budget["Date"],
                             reconciled_category_budget["Payment"], None)
    IN  Returned(make_monthly_table(actual_monthly_sums, all_planned_monthly_sums,
                                    reconciled_monthly_sums, category_budget_in, year),
                 get_year_projection(cat, forward_category_budget, actual_monthly_sums),
                 <<>>)

parse_quarterly_budget(cat, category_budget_in, trans, year, now) ==
    IF ~HasKeys(category_budget_in, {"This Year", "Next Year"}) THEN Raised
    ELSE IF Len(category_budget_in["This Year"]) < 4 \/ Len(category_budget_in["Next Year"]) < 4
         THEN Raised
    ELSE IF \E i \in 1..4 : category_budget_in["This Year"][i] = Blank
                            \/ category_budget_in["Next Year"][i] = Blank THEN Raised
    ELSE
    LET plan == [i \in 1..4 |-> CellVal(category_budget_in["This Year"][i])]
        sums == get_quarterly_sums(cat, trans.Date, trans.Amount, trans.Category, plan, now)
        quarterly_spent_ == sums[1]
        quarterly_remaining_ == sums[2]
        budget == Put(Put(category_budget_in,
                      "Spent", [i \in 1..4 |-> Cell(quarterly_spent_[i][2])]),
                      "Remaining", [i \in 1..4 |-> Cell(quarterly_remaining_[i][2])])
        quarter_dates == << <<year, 3, 31>>, <<year, 6, 30>>, <<year, 9, 30>>, <<year, 12, 31>> >>
        multi_year_projection ==
            [i \in 1..4 |-> <<quarter_dates[i], CellVal(budget["Next Year"][i])>>]
        future_transactions ==
            [i \in 1..4 |->
                LET x == quarter_dates[i]
                IN  Event(x, Join(<<S_Planned, cat, S_for, S_Quarter, Str(i), S_in,
                                    MonthName(Month(x)), Str(Year(x))>>),
                          quarterly_remaining_[i][2], cat, Blank)]
        actual_monthly_totals ==
            [i \in 1..4 |->
                LET x == quarter_dates[i]
                IN  Event(x, Join(<<cat, S_total, S_for, S_Quarter, Str(i), Str(Year(x))>>),
                          quarterly_spent_[i][2], cat, Blank)]
    IN  Returned(budget, NonZero(actual_monthly_totals) \o NonZero(future_transactions),
                 multi_year_projection)

\* monthly_remaining that treats every month from the current one on like the
\* current month (planned less actual, clamped)
monthly_remaining_all_clamped(planned, actual_monthly_sums, this_month) ==
    [m \in 1..12 |->
        IF m < this_month THEN 0
        ELSE LET value == IF m <= Len(actual_monthly_sums)
                          THEN CellVal(planned[m]) - actual_monthly_sums[m][2]
                          ELSE CellVal(planned[m])
             IN  IF value > 0 THEN 0 ELSE value]

\* the loop that fills remaining[0..11]
monthly_remaining(planned, actual_monthly_sums, this_month) ==
    [m \in 1..12 |->
        IF m < this_month THEN 0
        ELSE IF m = this_month
             THEN LET value == IF m <= Len(actual_monthly_sums)
                               THEN CellVal(planned[m]) - actual_monthly_sums[m][2]
                               ELSE CellVal(planned[m])
                  IN  IF value > 0 THEN 0 ELSE value
             ELSE CellVal(planned[m])]

parse_monthly_budget(cat, category_budget_in, actual_monthly_sums, now) ==
    IF ~HasKeys(category_budget_in, {"Planned", "Next Year"}) THEN Raised
    ELSE IF Len(category_budget_in["Planned"]) < 12 \/ Len(category_budget_in["Next Year"]) < 12
            \/ Len(actual_monthly_sums) > Len(category_budget_in["Planned"]) THEN Raised
    ELSE IF \E i \in 1..12 : category_budget_in["Planned"][i] = Blank
                             \/ category_budget_in["Next Year"][i] = Blank THEN Raised
    ELSE
    LET this_month == Month(now)
        year == Year(now)
        Planned(i) == CellVal(category_budget_in["Planned"][i])
        remaining_ == monthly_remaining(category_budget_in["Planned"], actual_monthly_sums, this_month)
        spent_minus_planned ==
            [m \in 1..12 |-> IF m <= Len(actual_monthly_sums)
                             THEN actual_monthly_sums[m][2] - Planned(m) ELSE 0]
        Spent == [m \in 1..(IF Len(actual_monthly_sums) > 12 THEN Len(actual_monthly_sums) ELSE 12) |->
                    IF m <= Len(actual_monthly_sums) THEN actual_monthly_sums[m][2] ELSE 0]
        budget == Put(Put(Put(category_budget_in,
                      "Spent - Yearly Planned", Cells(spent_minus_planned)),
                      "Remaining", Cells(remaining_)),
                      "Spent", Cells(Spent))
        monthly_dates == [m \in 1..12 |-> end_of_month(<<year, m, 1>>)]
        future_transactions ==
            [m \in 1..12 |->
                LET x == monthly_dates[m]
                IN  Event(x, Join(<<S_Planned, cat, S_for, MonthName(Month(x)), Str(Year(x))>>),
                          remaining_[m], cat, Blank)]
        actual_monthly_totals ==
            [m \in 1..12 |->
                LET x == monthly_dates[m]
                IN  Event(x, Join(<<cat, S_total, S_for, S_Month, Str(m), Str(Year(x))>>),
                          Spent[m], cat, Blank)]
        multi_year_projection ==
            [m \in 1..12 |-> <<end_of_month(<<year, m, 1>>), CellVal(budget["Next Year"][m])>>]
    IN  Returned(budget, NonZero(actual_monthly_totals) \o NonZero(future_transactions),
                 multi_year_projection)

\* the index that falls back on the first row of the Expenses sheet
ExpenseIndex_fallback(cat, expenses_) ==
    LET hits == {i \in 1..Len(expenses_["Category"]) : expenses_["Category"][i] = cat}
    IN  IF hits = {} THEN 1 ELSE CHOOSE i \in hits : \A j \in hits : i <= j

\* the index of the category in the Expenses sheet, 0 when it is not there
ExpenseIndex(cat, expenses_) ==
    LET hits == {i \in 1..Len(expenses_["Category"]) : expenses_["Category"][i] = cat}
    IN  IF hits = {} THEN 0 ELSE CHOOSE i \in hits : \A j \in hits : i <= j

\* sum(list) of a list of cells
RECURSIVE SumCells(_)
SumCells(list) == IF list = <<>> THEN 0 ELSE CellVal(Head(list)) + SumCells(Tail(list))

\* sum(x[1] for x in sums)
RECURSIVE SumPairs(_)
SumPairs(sums) == IF sums = <<>> THEN 0 ELSE Head(sums)[2] + SumPairs(Tail(sums))

\* the ledger with its rows described as "Yearly" left in
WithoutYearly_keep(category_budget_in) == category_budget_in

\* the ledger without its rows described as "Yearly"
WithoutYearly(category_budget_in) ==
    LET keep == Ascending({i \in 1..Len(category_budget_in["Desc."]) :
                              category_budget_in["Desc."][i] # S_Yearly})
    IN  IF Len(keep) = Len(category_budget_in["Desc."]) THEN category_budget_in
        ELSE [key \in DOMAIN category_budget_in |-> Pick(category_budget_in[key], keep)]

\* parse_yearly_expense raises: the category is not in the Expenses sheet,
\* or a forward This Year cell is not a number
parse_yearly_expense_raises(cat, category_budget_in, expenses_) ==
    \/ ~HasKeys(category_budget_in, {"Desc.", "R", "This Year", "Next Year", "Date"})
    \/ ExpenseIndex(cat, expenses_) = 0
    \/ LET forward_budget == get_forward_budget(WithoutYearly(category_budget_in))
       IN  \E i \in 1..Len(forward_budget["This Year"]) : forward_budget["This Year"][i] = Blank

\* what parse_yearly_expense raises: the Exception for a category that is not
\* in the Expenses sheet, unless the Desc. or R column is missed first
parse_yearly_expense_error(cat, category_budget_in, expenses_) ==
    IF HasKeys(category_budget_in, {"Desc.", "R"}) /\ ExpenseIndex(cat, expenses_) = 0
    THEN RaisedMessage(ExpensesMessage(cat))
    ELSE Raised

\* the leftover without the clamp
ClampLeftover_none(x) == x

\* min(0, x): the leftover is set to 0.0 when it is positive
ClampLeftover(x) == IF x > 0 THEN 0 ELSE x

parse_yearly_expense(cat, category_budget_in, actual_monthly_sums, expenses_, now) ==
    LET category_budget_ == WithoutYearly(category_budget_in)
        forward_budget == get_forward_budget(category_budget_)
        i_expense == ExpenseIndex(cat, expenses_)
        this_years_plan == expenses_["This Year"][i_expense]
        next_years_plan == expenses_["Next Year"][i_expense]
        next_years_plan_to_date == SumSeq(remove_list_blanks(category_budget_["Next Year"]))
        this_years_leftover ==
            ClampLeftover(this_years_plan
                            - (SumPairs(actual_monthly_sums) + SumCells(forward_budget["This Year"])))
        next_years_leftover == ClampLeftover(next_years_plan - next_years_plan_to_date)
    IN  make_dict_list_same_len(
            Put(Put(Put(Put(category_budget_,
                "This Year", Append(category_budget_["This Year"], Cell(this_years_leftover))),
                "Next Year", Append(category_budget_["Next Year"], Cell(next_years_leftover))),
                "Date", Append(category_budget_["Date"], <<Year(now), 12, 31>>)),
                "Desc.", Append(category_budget_["Desc."], S_Yearly)))

\* the empty shape without the Note column
EmptyLedger_no_note ==
    [key \in {"Date", "Desc.", "This Year", "R", "Next Year"} |-> <<>>]

EmptyLedger ==
    [key \in {"Date", "Desc.", "This Year", "R", "Next Year", "Note"} |-> <<>>]

parse_default_budget(cat, category_budget_in, actual_monthly_sums, expenses_, types, year, now) ==
    IF "Date" \notin DOMAIN category_budget_in /\ category_budget_in # EmptyDict
    THEN RaisedMessage(DateMessage(cat))
    ELSE
    LET budget0 == IF "Date" \notin DOMAIN category_budget_in THEN EmptyLedger
                   ELSE category_budget_in
        is_yearly == InList(cat, types["Yearly"])
    IN  IF is_yearly /\ parse_yearly_expense_raises(cat, budget0, expenses_)
        THEN parse_yearly_expense_error(cat, budget0, expenses_)
        ELSE
        LET budget1 ==
                IF is_yearly
                THEN LET b == parse_yearly_expense(cat, budget0, actual_monthly_sums, expenses_, now)
                         total_planned == expenses_["This Year"][ExpenseIndex(cat, expenses_)]
                         total_spent == SumPairs(actual_monthly_sums)
                     IN  make_dict_list_same_len(
                             Put(b, "Remaining", <<Cell(total_planned - total_spent)>>))
                ELSE budget0
        IN  IF ~HasKeys(budget1, {"R", "This Year", "Next Year", "Desc.", "Note"}) THEN Raised
            ELSE IF get_monthly_sums_raises(budget1["Date"]) THEN Raised
            ELSE
            LET forward_category_budget == get_forward_budget(budget1)
                reconciled_category_budget == get_reconciled_budget(budget1)
                all_planned_monthly_sums ==
                    get_monthly_sums(None, budget1["Date"], budget1["This Year"], None)
                reconciled_monthly_sums ==
                    get_monthly_sums(None, reconciled_category_budget["Date"],
                                     reconciled_category_budget["This Year"], None)
                multi_year_projection ==
                    get_monthly_sums(None, budget1["Date"], budget1["Next Year"], None)
            IN  Returned(make_monthly_table(actual_monthly_sums, all_planned_monthly_sums,
                                            reconciled_monthly_sums, budget1, year),
                         get_year_projection(cat, forward_category_budget, actual_monthly_sums),
                         multi_year_projection)

-----------------------------------------------------------------------------
(* parse_budget.py *)

\* x + relativedelta(years=n): the same month, the day cut to the month's length
AddYears(x, n) ==
    <<Year(x) + n, Month(x), IF Day(x) > DaysInMonth(Year(x) + n, Month(x))
                             THEN DaysInMonth(Year(x) + n, Month(x)) ELSE Day(x)>>

\* the renaming of the # descriptions and the removal of repeated words
RenameDescriptions(cat, category_budget_in) ==
    IF "Desc." \notin DOMAIN category_budget_in THEN category_budget_in
    ELSE Put(category_budget_in, "Desc.",
             [i \in 1..Len(category_budget_in["Desc."]) |->
                LET x == category_budget_in["Desc."][i]
                    renamed == IF \E j \in 1..Len(x) : x[j] = Hash
                               THEN Split(x)[1] \o Space \o cat ELSE x
                IN  Join(FromKeys(Split(renamed), {}))])

\* ForecastYear that keeps the seeds of amount zero
ForecastYear_keep_zero(cat, multi_year_projection, i) ==
    [k \in 1..Len(multi_year_projection) |->
        LET x == multi_year_projection[k]
        IN  Event(AddYears(x[1], i),
                  Join(<<S_Forecast, cat, S_for, MonthName(Month(x[1])), Str(Year(x[1]) + i)>>),
                  x[2], cat, Blank)]

\* the forecast of the year i ahead
ForecastYear(cat, multi_year_projection, i) ==
    LET seeds == SelectSeq(multi_year_projection, LAMBDA x : x[2] # 0)
    IN  [k \in 1..Len(seeds) |->
            LET x == seeds[k]
            IN  Event(AddYears(x[1], i),
                      Join(<<S_Forecast, cat, S_for, MonthName(Month(x[1])), Str(Year(x[1]) + i)>>),
                      x[2], cat, Blank)]

\* the result of parse_budget: the exception flag, the returned
\* (category_budget, year_projection, forecast) and the seed the forecast is
\* made of
parse_budget(cat, category_budget_in, trans, expenses_, types, year, now) ==
    LET renamed == RenameDescriptions(cat, category_budget_in)
        actual_monthly_sums ==
            IF trans.Date # <<>>
            THEN get_monthly_sums(cat, trans.Date, trans.Amount, trans.Category)
            ELSE <<>>
        r == IF InList(cat, types["Loan"])
             THEN parse_loan_budget(cat, renamed, actual_monthly_sums, year)
             ELSE IF InList(cat, types["Quarterly"])
             THEN parse_quarterly_budget(cat, renamed, trans, year, now)
             ELSE IF InList(cat, types["Monthly"])
             THEN parse_monthly_budget(cat, renamed, actual_monthly_sums, now)
             ELSE parse_default_budget(cat, renamed, actual_monthly_sums, expenses_, types, year, now)
    IN  IF r.raised THEN [raised |-> TRUE, message |-> r.message, budget |-> EmptyDict,
                          year_projection |-> <<>>,
                          multi_year_projection |-> <<>>, forecast |-> <<>>]
        ELSE [raised |-> FALSE, message |-> Blank, budget |-> r.budget,
              year_projection |-> r.year_projection,
              multi_year_projection |-> r.multi_year_projection,
              forecast |-> [i \in 1..5 |-> ForecastYear(cat, r.multi_year_projection, i)]]

-----------------------------------------------------------------------------
(* BudgetMeeting.py *)

\* a < b for str
StrLess(a, b) ==
    \/ Len(a) < Len(b) /\ \A i \in 1..Len(a) : a[i] = b[i]
    \/ \E i \in 1..Min(Len(a), Len(b)) : a[i] < b[i] /\ \A j \in 1..(i - 1) : a[j] = b[j]

\* a < b for the tuples (date, description, amount, category, balance, note)
TupleLess(a, b) ==
    \/ DateLess(a[1], b[1])
    \/ a[1] = b[1] /\ StrLess(a[2], b[2])
    \/ a[1] = b[1] /\ a[2] = b[2] /\ a[3] < b[3]
    \/ a[1] = b[1] /\ a[2] = b[2] /\ a[3] = b[3] /\ StrLess(a[4], b[4])
    \/ a[1] = b[1] /\ a[2] = b[2] /\ a[3] = b[3] /\ a[4] = b[4] /\ a[5] < b[5]
    \/ a[1] = b[1] /\ a[2] = b[2] /\ a[3] = b[3] /\ a[4] = b[4] /\ a[5] = b[5]
       /\ StrLess(a[6], b[6])

\* the tuple put at the front, wherever it belongs
InsertTuple_front(t, s) == <<t>> \o s

\* list.sort() of the list of tuples
RECURSIVE InsertTuple(_, _)
InsertTuple(t, s) ==
    IF s = <<>> THEN <<t>>
    ELSE IF TupleLess(t, Head(s)) THEN <<t>> \o s
    ELSE <<Head(s)>> \o InsertTuple(t, Tail(s))

\* the list left in the order it was given
SortTuples_unsorted(s) == s

RECURSIVE SortTuples(_)
SortTuples(s) == IF s = <<>> THEN <<>> ELSE InsertTuple(Head(s), SortTuples(Tail(s)))

\* the balance column filled with the amount of each event alone
RECURSIVE FillBalance_single(_, _)
FillBalance_single(tuples, current_balance) ==
    IF tuples = <<>> THEN <<>>
    ELSE <<[Head(tuples) EXCEPT ![5] = current_balance + Head(tuples)[3]]>>
         \o FillBalance_single(Tail(tuples), current_balance)

\* the loop that fills in the balance column
RECURSIVE FillBalance(_, _)
FillBalance(tuples, current_balance) ==
    IF tuples = <<>> THEN <<>>
    ELSE <<[Head(tuples) EXCEPT ![5] = current_balance + Head(tuples)[3]]>>
         \o FillBalance(Tail(tuples), current_balance + Head(tuples)[3])

find_monthly_sums(tuples, year) ==
    LET projection_categories == {tuples[i][4] : i \in 1..Len(tuples)}
    IN  [cat \in projection_categories |->
            LET category_projection_list ==
                    SelectSeq(tuples, LAMBDA x : x[4] = cat /\ DateLess(x[1], <<year + 1, 1, 1>>))
            IN  get_monthly_sums(None,
                                 [i \in 1..Len(category_projection_list) |->
                                      category_projection_list[i][1]],
                                 [i \in 1..Len(category_projection_list) |->
                                      Cell(category_projection_list[i][3])],
                                 None)]

\* zip(projection_list[0], ..., projection_list[5])
Zip(columns) == [i \in 1..Len(columns[1]) |-> [c \in 1..6 |-> columns[c][i]]]

\* returns (projection_dict, monthly_sums_dict)
make_projection_dict(columns, start_balance, year) ==
    LET projection_tuples == SortTuples(Zip(columns))
        filled == FillBalance(projection_tuples, start_balance)
        projection_columns == <<"Date", "Desc.", "Amount", "Category", "Balance", "Note">>
    IN  << [key \in {projection_columns[c] : c \in 1..6} |->
               LET c == CHOOSE k \in 1..6 : projection_columns[k] = key
               IN  [i \in 1..Len(filled) |-> filled[i][c]]],
           find_monthly_sums(filled, year) >>

\* find_ideal: ideal_budget, the events of the year after the year of
\* date.today() whose description holds 'Forecast:' (year, the budget year,
\* is not read)
find_ideal(columns, now, year) ==
    LET i_ideal_budget ==
            Ascending({i \in 1..Len(columns[1]) :
                          Year(columns[1][i]) = Year(now) + 1 /\ Contains(columns[2][i], S_Forecast)})
    IN  [c \in 1..6 |-> Pick(columns[c], i_ideal_budget)]

S_transactions == <<116, 114, 97, 110, 115, 97, 99, 116, 105, 111, 110, 115>>   \* "transactions"

\* the sheet names the loop skips: Projection, Monthly, Expenses, Savings,
\* Balances, Credit Card, Categories, Ideal Monthly, Ideal Projection,
\* Projection Balances, Diffs, Q Summary, Y Summary, Yearly Remaining
excluded ==
    { <<80, 114, 111, 106, 101, 99, 116, 105, 111, 110>>,
      <<77, 111, 110, 116, 104, 108, 121>>,
      <<69, 120, 112, 101, 110, 115, 101, 115>>,
      <<83, 97, 118, 105, 110, 103, 115>>,
      <<66, 97, 108, 97, 110, 99, 101, 115>>,
      <<67, 114, 101, 100, 105, 116, 32, 67, 97, 114, 100>>,
      <<67, 97, 116, 101, 103, 111, 114, 105, 101, 115>>,
      <<73, 100, 101, 97, 108, 32, 77, 111, 110, 116, 104, 108, 121>>,
      <<73, 100, 101, 97, 108, 32, 80, 114, 111, 106, 101, 99, 116, 105, 111, 110>>,
      <<80, 114, 111, 106, 101, 99, 116, 105, 111, 110, 32, 66, 97, 108, 97, 110, 99, 101, 115>>,
      <<68, 105, 102, 102, 115>>,
      <<81, 32, 83, 117, 109, 109, 97, 114, 121>>,
      <<89, 32, 83, 117, 109, 109, 97, 114, 121>>,
      <<89, 101, 97, 114, 108, 121, 32, 82, 101, 109, 97, 105, 110, 105, 110, 103>> }

\* the name of the workbook up to its first '.', and the characters '_' and '.xlsx'
S_budget == <<98, 117, 100, 103, 101, 116>>
Underscore == <<95>>
S_xlsx == <<46, 120, 108, 115, 120>>

\* lines 21-23: the name of the copy, made of the month, the day and the year
\* of the date and of the second of the clock
back_up_xls(day, time) ==
    S_budget \o Underscore \o Str(Month(day)) \o Underscore \o Str(Day(day)) \o Underscore
        \o Str(Year(day)) \o Underscore \o Str(time[3]) \o S_xlsx

\* shutil.copy of the workbook into archive/ kept out
Archived_skipped(archive_, name, workbook) == archive_

\* shutil.copy of the workbook into archive/: a file of that name is replaced
Archived(archive_, name, workbook) == Put(archive_, name, workbook)

\* list(set(transactions['Category'] + b.sheet_names)): the names to visit;
\* the workbook holds the sheets Categories, Expenses and Balances beside the
\* category sheets
SheetNames(workbook) == DOMAIN workbook \cup {S_Categories, S_Expenses, S_Balances}

CategoriesOf(trans, workbook) == {trans.Category[i] : i \in 1..Len(trans.Category)} \cup SheetNames(workbook)

\* utilities.remove_empty_rows
remove_empty_rows(my_dict, key_base) ==
    LET max_length == Cardinality({i \in 1..Len(my_dict[key_base]) : my_dict[key_base][i] # Blank})
    IN  [key \in DOMAIN my_dict |-> SubSeq(my_dict[key], 1, Min(max_length, Len(my_dict[key])))]

\* the ledger read from a sheet: six empty columns for a sheet without
\* columns, the rows up to the number of dated rows for a sheet with a Date
\* column (the dates of the model are dates already)
SheetLedger(sheet) ==
    IF DOMAIN sheet = {} THEN EmptyLedger
    ELSE IF "Date" \in DOMAIN sheet THEN remove_empty_rows(sheet, "Date")
    ELSE sheet

\* the ledger given to parse_budget for a category: the coerced ledger of its
\* sheet, or six empty columns for a category without a sheet
LedgerOf(cat, workbook) ==
    IF cat \in DOMAIN workbook THEN remove_budget_integers(SheetLedger(workbook[cat]))
    ELSE EmptyLedger

\* the events of a category without a sheet: one per month of non-zero sum
monthly_transactions(cat, trans) ==
    LET sums == get_monthly_sums(cat, trans.Date, trans.Amount, trans.Category)
        category_monthly_sums == SelectSeq(sums, LAMBDA x : x[2] # 0)
    IN  [i \in 1..Len(category_monthly_sums) |->
            LET x == category_monthly_sums[i]
            IN  Event(x[1], Join(<<cat, S_transactions, S_for, MonthName(Month(x[1])), Str(Year(x[1]))>>),
                      x[2], cat, Blank)]

\* the events a category adds to projection_list: those of the parse and of
\* the five forecast years for a category with a sheet, the monthly
\* transactions for a category without
CategoryEvents(cat, workbook, trans, result) ==
    IF cat \in DOMAIN workbook
    THEN result.year_projection \o result.forecast[1] \o result.forecast[2] \o result.forecast[3]
            \o result.forecast[4] \o result.forecast[5]
    ELSE monthly_transactions(cat, trans)

\* projection_list[i].extend(...) for the six columns
Extend(columns, events) == [c \in 1..6 |-> columns[c] \o [i \in 1..Len(events) |-> events[i][c]]]

\* the loop going on to the next category after a parser has raised
AfterParse_continue(result) == "loop"

\* where the run goes after parse_budget: an exception leaves update_budget
AfterParse(result) == IF result.raised THEN "failed" ELSE "loop"

\* sum([x for x in budgets[category]['Difference'] if isinstance(x, float)])
DifferenceOf(budget) ==
    SumSeq([i \in 1..Len(budget["Difference"]) |->
               IF Len(budget["Difference"][i]) = 1 THEN budget["Difference"][i][1] ELSE 0])

\* the summary loop raises KeyError or IndexError on a returned ledger
\* without the columns it reads
SummaryRaises(cat, budget, types) ==
    IF InList(cat, types["Loan"]) \/ InList(cat, types["Yearly"]) THEN "Difference" \notin DOMAIN budget
    ELSE IF InList(cat, types["Quarterly"])
    THEN \E k \in {"This Year", "Spent", "Remaining"} : k \notin DOMAIN budget \/ Len(budget[k]) < 4
    ELSE IF InList(cat, types["Monthly"])
    THEN \E k \in {"Planned", "Spent", "Remaining"} : k \notin DOMAIN budget \/ Len(budget[k]) < 12
    ELSE "Difference" \notin DOMAIN budget

\* differences: the categories of the Loan, the Yearly and the else branch,
\* the branches tried in the order Loan, Yearly, Quarterly, Monthly
HasDifference(cat, types) ==
    \/ InList(cat, types["Loan"])
    \/ InList(cat, types["Yearly"])
    \/ ~InList(cat, types["Quarterly"]) /\ ~InList(cat, types["Monthly"])

\* every difference reported, whatever its size
DiffOuts_all(budgets_, types) ==
    LET out == {k \in DOMAIN budgets_ : HasDifference(k, types)}
    IN  [k \in out |-> DifferenceOf(budgets_[k])]

\* diff_outs: the differences beyond 0.01
DiffOuts(budgets_, types) ==
    LET out == {k \in DOMAIN budgets_ : HasDifference(k, types) /\ DifferenceOf(budgets_[k]) # 0}
    IN  [k \in out |-> DifferenceOf(budgets_[k])]

\* isinstance(x, (int, float)): a number cell; an empty cell is read as NaN
\* and dropped, a str is passed over
IsIntOrFloat(val) == Len(val) = 1 \/ (Len(val) = 2 /\ val[1] \in {"int", "bigint"})

\* the value of a number cell (an int beyond the range of a float has none here)
NumberValue(val) == CASE Len(val) = 1 -> val[1] [] val[1] = "int" -> val[2]

\* sum([x for x in column.dropna() if isinstance(x, (int, float))])
SumNumbers(column) ==
    SumSeq([i \in 1..Len(column) |-> IF IsIntOrFloat(column[i]) THEN NumberValue(column[i]) ELSE 0])

\* the rows whose Date is a date of the given year
InYear(df_category, year) ==
    {i \in 1..Len(df_category["Date"]) :
        df_category["Date"][i] # Blank /\ Year(df_category["Date"][i]) = year}

\* the amount column with This Year tried before Payment
amount_column_this_year_first(df_category) ==
    IF "This Year" \in DOMAIN df_category THEN "This Year"
    ELSE IF "Payment" \in DOMAIN df_category THEN "Payment" ELSE ""

\* Payment, else This Year, else none
amount_column(df_category) ==
    IF "Payment" \in DOMAIN df_category THEN "Payment"
    ELSE IF "This Year" \in DOMAIN df_category THEN "This Year" ELSE ""

\* the sum of the amount column over the rows dated in the year
year_payments(df_category, year) ==
    IF "Date" \notin DOMAIN df_category \/ amount_column(df_category) = "" THEN 0
    ELSE SumNumbers(Pick(df_category[amount_column(df_category)], Ascending(InYear(df_category, year))))

\* lines 222-252: the estimate of the current year
remaining_this_year(df_category, year) ==
    IF "Remaining" \in DOMAIN df_category THEN SumNumbers(df_category["Remaining"])
    ELSE IF "Date" \in DOMAIN df_category THEN year_payments(df_category, year)
    ELSE IF "This Year" \in DOMAIN df_category THEN SumNumbers(df_category["This Year"])
    ELSE 0

\* lines 254-296: the estimate of a later year
remaining_future_year(cat, df_category, types, year) ==
    LET baseline_amount == IF "Next Year" \in DOMAIN df_category
                           THEN SumNumbers(df_category["Next Year"]) ELSE 0
        specific_year_amount == year_payments(df_category, year)
    IN  IF baseline_amount # 0 \/ specific_year_amount # 0
        THEN baseline_amount + specific_year_amount
        ELSE IF InList(cat, types["Monthly"]) /\ "Planned" \in DOMAIN df_category
        THEN SumNumbers(df_category["Planned"])
        ELSE IF InList(cat, types["Quarterly"]) /\ "This Year" \in DOMAIN df_category
        THEN SumNumbers(df_category["This Year"])
        ELSE 0

\* the table by category: the estimates of this_year and of the four years after
calculate_remaining_expenses_from_sheets(workbook, types, year) ==
    [cat \in SheetNames(workbook) \ excluded |->
        [i \in 1..5 |-> IF i = 1 THEN remaining_this_year(workbook[cat], year)
                        ELSE remaining_future_year(cat, workbook[cat], types, year + i - 1)]]

-----------------------------------------------------------------------------
(* Inputs *)

\* the day of the run and the budget year it is run for
Runs == { <<<<2024, 2, 15>>, 2024>>, <<<<2024, 5, 10>>, 2024>>, <<<<2025, 1, 20>>, 2025>> }

TxDates == { <<2023, 12, 30>>, <<2024, 2, 10>> }

SeqsUpTo(S, n) == UNION { [1..k -> S] : k \in 0..n }

TxRows == (TxDates \X { <<<<-2>>, CatA>> }) \cup { << <<2024, 2, 10>>, <<<<3>>, CatB>> >> }

TransactionsOf(rows) ==
    [Date     |-> [i \in 1..Len(rows) |-> rows[i][1]],
     Amount   |-> [i \in 1..Len(rows) |-> rows[i][2][1]],
     Category |-> [i \in 1..Len(rows) |-> rows[i][2][2]]]

TransactionStreams == { TransactionsOf(rows) : rows \in SeqsUpTo(TxRows, MaxTx) }

Plans == { <<-3, -3, -3, -3>>, <<-3, 0, 2, -1>>, <<2, -1, -3, 0>>, <<0, 0, 0, 0>> }

\* the Categories sheet with category A of the given type, B a Loan
CategoryTypes(t) ==
    [k \in {"Loan", "Yearly", "Quarterly", "Monthly"} |->
        IF k = t THEN (IF k = "Loan" THEN <<CatB, CatA>> ELSE <<CatA>>)
        ELSE IF k = "Loan" THEN <<CatB>> ELSE <<>>]

\* the Expenses sheet: with a plan for A, or without a row for A
ExpenseSheets ==
    { [k \in {"Category", "This Year", "Next Year"} |->
          IF k = "Category" THEN <<CatB, CatA>> ELSE IF k = "This Year" THEN <<-1, p[1]>>
          ELSE <<-1, p[2]>>] : p \in { <<-6, -3>>, <<2, 0>> } }
    \cup { [k \in {"Category", "This Year", "Next Year"} |->
          IF k = "Category" THEN <<CatB>> ELSE <<-1>>] }

S_Rent == <<82, 101, 110, 116>>         \* "Rent"
S_Pay == <<80, 97, 121, 32, 35, 49>>    \* "Pay #1"
S_x == <<120>>                          \* the reconciled mark "x"

\* ledger rows: (Date, Desc., amount, R, Next Year, Note)
LedgerRows ==
    { << <<2024, 2, 20>>, S_Rent, <<-2>>, S_x, <<-2>>, Blank >>,
      << <<2024, 3, 31>>, S_Pay, <<-2>>, Blank, <<-2>>, Blank >>,
      << <<2024, 12, 31>>, S_Yearly, <<-1>>, Blank, <<0>>, Blank >>,
      << <<2025, 1, 5>>, S_Rent, <<0>>, Blank, <<3>>, <<110>> >> }

Column(rows, c) == [i \in 1..Len(rows) |-> rows[i][c]]

\* a dated ledger whose amount column is This Year (Default) or Payment (Loan)
DatedLedger(rows, amount_key) ==
    [k \in {"Date", "Desc.", amount_key, "R", "Next Year", "Note"} |->
        Column(rows, CASE k = "Date" -> 1 [] k = "Desc." -> 2 [] k = amount_key -> 3
                       [] k = "R" -> 4 [] k = "Next Year" -> 5 [] k = "Note" -> 6)]

QuarterlyLedgers ==
    { [k \in {"Quarter", "This Year", "Next Year"} |->
          IF k = "Quarter" THEN Cells(<<1, 2, 3, 4>>) ELSE IF k = "This Year" THEN Cells(p)
          ELSE Cells(n)] : p \in Plans, n \in { <<0, 0, 0, 0>>, <<-3, 0, 2, -1>> } }

MonthlyPlans ==
    { [m \in 1..12 |-> 0 - m], [m \in 1..12 |-> 2], [m \in 1..12 |-> IF m % 2 = 0 THEN -3 ELSE 0] }

MonthlyLedgers ==
    { [k \in {"Month", "Planned", "Next Year"} |->
          IF k = "Month" THEN Cells([m \in 1..12 |-> m]) ELSE IF k = "Planned" THEN Cells(p)
          ELSE Cells(n)] : p \in MonthlyPlans,
                           n \in { [m \in 1..12 |-> 0], [m \in 1..12 |-> IF m \in {2, 12} THEN -3 ELSE 0] } }

Types == {"Loan", "Yearly", "Quarterly", "Monthly", "Other"}

\* the Expenses sheets tried with a category of type t
Sheets(t) ==
    IF t = "Yearly" THEN ExpenseSheets
    ELSE {CHOOSE e \in ExpenseSheets : Len(e["Category"]) = 1}

\* a sheet without a Date column: column A has another header
UndatedLedger ==
    [k \in {"Desc.", "This Year", "R", "Next Year", "Note"} |->
        CASE k = "Desc." -> <<S_Rent>> [] k = "This Year" -> <<Cell(-2)>> [] k = "R" -> <<Blank>>
          [] k = "Next Year" -> <<Cell(-2)>> [] k = "Note" -> <<Blank>>]

\* a ledger whose only row is dated in January of the first budget year,
\* before the latest transaction date
EarlyLedger ==
    DatedLedger(<< << <<2024, 1, 15>>, S_Rent, <<-5>>, S_x, <<0>>, Blank >> >>, "This Year")

\* the ledgers tried with a category of type t: the well-formed ones, and for
\* the dated types a sheet with This Year where a Loan has Payment, a sheet
\* without a Date column and a ledger without any column
Ledgers(t) ==
    CASE t = "Loan" -> { DatedLedger(rows, "Payment") : rows \in SeqsUpTo(LedgerRows, MaxRows) }
                       \cup { DatedLedger(<<rows>>, "This Year") :
                                rows \in {r \in LedgerRows : r[2] = S_Pay} }
      [] t = "Quarterly" -> QuarterlyLedgers
      [] t = "Monthly" -> MonthlyLedgers
      [] OTHER -> { DatedLedger(rows, "This Year") : rows \in SeqsUpTo(LedgerRows, MaxRows) }
                  \cup { UndatedLedger, EmptyDict, EarlyLedger }

\* events as the parsers emit them
ProjectionEvents ==
    { Event(<<2024, 1, 31>>, Join(<<CatA, S_total, S_for, MonthName(1), Str(2024)>>), -2, CatA, Blank),
      Event(<<2024, 1, 31>>, Join(<<S_Rent, S_in, MonthName(1), Str(2024)>>), 3, CatB, <<110>>),
      Event(<<2023, 12, 31>>, Join(<<CatB, S_total, S_for, MonthName(12), Str(2023)>>), 3, CatB, Blank),
      Event(<<2025, 2, 28>>, Join(<<S_Forecast, CatA, S_for, MonthName(2), Str(2025)>>), -3, CatA, Blank),
      Event(<<2024, 12, 31>>, Join(<<S_Planned, CatA, S_for, MonthName(12), Str(2024)>>), -12, CatA, Blank) }

\* the six columns of a list of events
ColumnsOf(events) == [c \in 1..6 |-> [i \in 1..Len(events) |-> events[i][c]]]

ProjectionLists == { ColumnsOf(events) : events \in SeqsUpTo(ProjectionEvents, MaxEvents) }

Balances == { 0, 10 }

NoProjection == <<<<>>, <<>>, <<>>, <<>>, <<>>, <<>>>>

\* the run has not ended with an exception
NoFailure == [raised |-> FALSE, message |-> Blank, step |-> ""]

\* the run ended with an exception raised in a step, with a message
Failure(step, message) == [raised |-> TRUE, message |-> message, step |-> step]

NoResult == [raised |-> FALSE, message |-> Blank, budget |-> EmptyDict, year_projection |-> <<>>,
             multi_year_projection |-> <<>>, forecast |-> <<>>]

-----------------------------------------------------------------------------
(* The aggregator: get_monthly_sums and get_quarterly_sums applied to the  *)
(* transaction stream                                                      *)

\* remove_budget_integers has not been called
NotFixed == [raised |-> FALSE, error |-> "", budget |-> EmptyDict]

\* update_budget has not run
InitUpdateVars ==
    /\ sheets = EmptyDict
    /\ clock = <<10, 0, 5>>
    /\ archive = EmptyDict
    /\ written = FALSE
    /\ categories = {}
    /\ budgets = EmptyDict
    /\ missing_budgets = <<>>
    /\ diff_outs = EmptyDict
    /\ remaining_expenses = EmptyDict
    /\ failure = NoFailure

\* no ledger function has been called
InitLedgerVars ==
    /\ arg_budget = EmptyDict
    /\ ret_reconciled = EmptyDict
    /\ ret_forward = EmptyDict
    /\ ret_fixed = NotFixed
    /\ ret_projection = <<>>

InitCommon ==
    /\ InitUpdateVars
    /\ InitLedgerVars
    /\ \E run \in Runs : today = run[1] /\ this_year = run[2]
    /\ transactions \in TransactionStreams
    /\ pc = "start"
    /\ category = None
    /\ monthly_sums = <<>>
    /\ expense = <<>>
    /\ spent = <<>>
    /\ remaining = <<>>
    /\ category_types = CategoryTypes("Other")
    /\ expenses = EmptyDict
    /\ category_budget = EmptyDict
    /\ parsed = NoResult
    /\ previous = NoResult
    /\ projection_list = NoProjection
    /\ balance = 0
    /\ projection_dict = EmptyDict
    /\ monthly_sums_dict = EmptyDict
    /\ ideal_dict = EmptyDict

InitSums == InitCommon

GetMonthlySums ==
    /\ pc = "start"
    /\ \E cat \in {None, CatA, CatB} :
        /\ category' = cat
        /\ monthly_sums' = get_monthly_sums(cat, transactions.Date, transactions.Amount,
                                            transactions.Category)
    /\ pc' = "get_monthly_sums"
    /\ UNCHANGED <<today, this_year, transactions, expense, spent, remaining, parseVars, projVars,
                   updateVars, ledgerVars>>

GetQuarterlySums ==
    /\ pc = "start"
    /\ \E cat \in {None, CatA}, plan \in Plans :
        LET r == get_quarterly_sums(cat, transactions.Date, transactions.Amount,
                                    transactions.Category, plan, today)
        IN  /\ category' = cat
            /\ expense' = plan
            /\ spent' = r[1]
            /\ remaining' = r[2]
    /\ pc' = "get_quarterly_sums"
    /\ UNCHANGED <<today, this_year, transactions, monthly_sums, parseVars, projVars,
                   updateVars, ledgerVars>>

NextSums == GetMonthlySums \/ GetQuarterlySums

SpecSums == InitSums /\ [][NextSums]_vars

-----------------------------------------------------------------------------
(* The parser: parse_budget applied to one category's ledger, and applied  *)
(* again to the ledger it returned                                         *)

InitParse == InitCommon

\* parse_budget called on a ledger of the workbook, or called again on the
\* ledger that the call before returned
ParseBudget ==
    /\ pc \in {"start", "parsed"}
    /\ pc = "parsed" => ~parsed.raised
    /\ \E t \in IF pc = "start" THEN Types ELSE {t0 \in Types : CategoryTypes(t0) = category_types} :
       \E ledger \in IF pc = "start" THEN Ledgers(t) ELSE {parsed.budget} :
       \E sheet \in IF pc = "start" THEN Sheets(t) ELSE {expenses} :
        /\ category' = CatA
        /\ category_types' = CategoryTypes(t)
        /\ expenses' = sheet
        /\ category_budget' = ledger
        /\ parsed' = parse_budget(CatA, ledger, transactions, sheet, CategoryTypes(t),
                                  this_year, today)
    /\ previous' = IF pc = "start" THEN previous ELSE parsed
    /\ pc' = IF pc = "start" THEN "parsed" ELSE "reparsed"
    /\ UNCHANGED <<today, this_year, transactions, monthly_sums, expense, spent, remaining,
                   projVars, updateVars, ledgerVars>>

\* one call
NextParse == pc = "start" /\ ParseBudget

SpecParse == InitParse /\ [][NextParse]_vars

\* the call, and the call on what it returned
NextReparse == ParseBudget

SpecReparse == InitParse /\ [][NextReparse]_vars

-----------------------------------------------------------------------------
(* The projection builder: make_projection_dict applied to the collected   *)
(* events                                                                  *)

\* the runs of the projection builder: those of the parser, and a run in
\* January for the budget year before
ProjectionRuns == Runs \cup { <<<<2025, 1, 20>>, 2024>> }

InitProjection ==
    /\ InitUpdateVars
    /\ InitLedgerVars
    /\ \E run \in ProjectionRuns : today = run[1] /\ this_year = run[2]
    /\ transactions = TransactionsOf(<<>>)
    /\ pc = "start"
    /\ category = None
    /\ monthly_sums = <<>>
    /\ expense = <<>>
    /\ spent = <<>>
    /\ remaining = <<>>
    /\ category_types = CategoryTypes("Other")
    /\ expenses = EmptyDict
    /\ category_budget = EmptyDict
    /\ parsed = NoResult
    /\ previous = NoResult
    /\ projection_list \in ProjectionLists
    /\ balance \in Balances
    /\ projection_dict = EmptyDict
    /\ monthly_sums_dict = EmptyDict
    /\ ideal_dict = EmptyDict

MakeProjectionDict ==
    /\ pc = "start"
    /\ LET r == make_projection_dict(projection_list, balance, this_year)
       IN  /\ projection_dict' = r[1]
           /\ monthly_sums_dict' = r[2]
    /\ pc' = "make_projection_dict"
    /\ UNCHANGED <<today, this_year, transactions, sumsVars, parseVars, projection_list, balance,
                   ideal_dict, updateVars, ledgerVars>>

\* lines 167-168: the ideal budget and its projection, threaded from 0.0
FindIdeal ==
    /\ pc = "make_projection_dict"
    /\ ideal_dict' = make_projection_dict(find_ideal(projection_list, today, this_year), 0,
                                          this_year + 1)[1]
    /\ pc' = "find_ideal"
    /\ UNCHANGED <<today, this_year, transactions, sumsVars, parseVars, projection_list, balance,
                   projection_dict, monthly_sums_dict, updateVars, ledgerVars>>

NextProjection == MakeProjectionDict \/ FindIdeal

SpecProjection == InitProjection /\ [][NextProjection]_vars

-----------------------------------------------------------------------------
(* The run: update_budget from the archive copy to write_budget            *)

\* the Categories sheet with A of type ta and B of type tb
CategoryTypesOf(ta, tb) ==
    [k \in {"Loan", "Yearly", "Quarterly", "Monthly"} |->
        (IF tb = k THEN <<CatB>> ELSE <<>>) \o (IF ta = k THEN <<CatA>> ELSE <<>>)]

\* a sheet row below the last ledger row, every cell empty
BlankRow == <<Blank, Blank, Blank, Blank, Blank, Blank>>

\* the sheets tried for category A: a ledger, a Loan ledger, a sheet
\* without a Date column, a sheet without columns
SheetsOfA ==
    { DatedLedger(<<CHOOSE r \in LedgerRows : r[2] = S_Rent /\ r[4] = S_x>>, "This Year"),
      DatedLedger(<<CHOOSE r \in LedgerRows : r[2] = S_Pay>>, "Payment"),
      UndatedLedger, EmptyDict }

\* the sheets tried for category B: a ledger followed by an empty row, and a
\* Quarterly sheet
SheetsOfB ==
    { DatedLedger(<<CHOOSE r \in LedgerRows : r[2] = S_Pay, BlankRow>>, "This Year"),
      CHOOSE q \in QuarterlyLedgers : q["Next Year"] # Cells(<<0, 0, 0, 0>>) }

\* the category sheets of the workbook: each of A and B with a sheet or without
Workbooks ==
    { EmptyDict }
    \cup { (CatA :> a) : a \in SheetsOfA }
    \cup { (CatB :> b) : b \in SheetsOfB }
    \cup { (CatA :> a) @@ (CatB :> b) : a \in SheetsOfA, b \in SheetsOfB }

InitUpdate ==
    /\ InitLedgerVars
    /\ today = <<2024, 2, 15>>
    /\ this_year = 2024
    /\ transactions \in TransactionStreams
    /\ pc = "start"
    /\ category = None
    /\ monthly_sums = <<>>
    /\ expense = <<>>
    /\ spent = <<>>
    /\ remaining = <<>>
    /\ \E ta \in {"Other", "Loan", "Yearly"}, tb \in {"Other", "Loan", "Quarterly"} :
        /\ category_types = CategoryTypesOf(ta, tb)
        /\ expenses \in Sheets(ta)
    /\ category_budget = EmptyDict
    /\ parsed = NoResult
    /\ previous = NoResult
    /\ projection_list = NoProjection
    /\ balance = 10
    /\ projection_dict = EmptyDict
    /\ monthly_sums_dict = EmptyDict
    /\ ideal_dict = EmptyDict
    /\ sheets \in Workbooks
    /\ clock = <<10, 0, 5>>
    /\ archive = EmptyDict
    /\ written = FALSE
    /\ categories = {}
    /\ budgets = EmptyDict
    /\ missing_budgets = <<>>
    /\ diff_outs = EmptyDict
    /\ remaining_expenses = EmptyDict
    /\ failure = NoFailure

\* lines 20-24: the copy into archive/, which the file system can refuse
Archive ==
    /\ pc = "start"
    /\ \E copied \in BOOLEAN :
        IF copied
        THEN /\ archive' = Archived(archive, back_up_xls(today, clock), sheets)
             /\ pc' = "archived"
             /\ UNCHANGED failure
        ELSE /\ pc' = "failed"
             /\ failure' = Failure("archive", Blank)
             /\ UNCHANGED archive
    /\ UNCHANGED <<today, this_year, transactions, sumsVars, parseVars, projVars, ledgerVars,
                   sheets, clock, written, categories, budgets, missing_budgets, diff_outs,
                   remaining_expenses>>

\* lines 26-50: the Categories and Expenses sheets are read, the categories
\* to visit are collected and the results start empty
ReadWorkbook ==
    /\ pc = "archived"
    /\ categories' = CategoriesOf(transactions, sheets)
    /\ budgets' = EmptyDict
    /\ projection_list' = NoProjection
    /\ missing_budgets' = <<>>
    /\ pc' = "loop"
    /\ UNCHANGED <<today, this_year, transactions, sumsVars, parseVars, balance, projection_dict,
                   monthly_sums_dict, ideal_dict, ledgerVars, sheets, clock, archive, written,
                   diff_outs, remaining_expenses,
                   failure>>

\* lines 51-94: one pass of the loop for a category that is not excluded, in
\* any order (the list is made from a set)
ParseCategory ==
    /\ pc = "loop"
    /\ \E cat \in categories \ excluded :
        /\ category' = cat
        /\ IF cat \in DOMAIN sheets /\ remove_budget_integers_raises(SheetLedger(sheets[cat]))
           THEN /\ pc' = "failed"
                /\ failure' = Failure("coerce", Blank)
                /\ UNCHANGED <<category_budget, parsed, projection_list, categories, budgets,
                               missing_budgets>>
           ELSE /\ category_budget' = LedgerOf(cat, sheets)
                /\ parsed' = parse_budget(cat, category_budget', transactions, expenses,
                                          category_types, this_year, today)
                /\ pc' = AfterParse(parsed')
                /\ IF parsed'.raised
                   THEN /\ failure' = Failure("parse", parsed'.message)
                        /\ UNCHANGED <<projection_list, categories, budgets, missing_budgets>>
                   ELSE /\ budgets' = Put(budgets, cat, parsed'.budget)
                        /\ projection_list' =
                               Extend(projection_list, CategoryEvents(cat, sheets, transactions, parsed'))
                        /\ missing_budgets' = IF cat \in DOMAIN sheets THEN missing_budgets
                                              ELSE Append(missing_budgets, cat)
                        /\ categories' = categories \ {cat}
                        /\ UNCHANGED failure
    /\ UNCHANGED <<today, this_year, transactions, monthly_sums, expense, spent, remaining,
                   category_types, expenses, previous, balance, projection_dict, monthly_sums_dict,
                   ideal_dict,
                   ledgerVars, sheets, clock, archive, written, diff_outs, remaining_expenses>>

\* lines 96-147: the summaries and the out-of-balance categories, once the
\* loop has visited every category
Summarize ==
    /\ pc = "loop"
    /\ categories \ excluded = {}
    /\ IF \E cat \in DOMAIN budgets : SummaryRaises(cat, budgets[cat], category_types)
       THEN /\ pc' = "failed"
            /\ failure' = Failure("summary", Blank)
            /\ UNCHANGED diff_outs
       ELSE /\ pc' = "summarized"
            /\ diff_outs' = DiffOuts(budgets, category_types)
            /\ UNCHANGED failure
    /\ UNCHANGED <<today, this_year, transactions, sumsVars, parseVars, projVars, ledgerVars,
                   sheets, clock, archive, written, categories, budgets, missing_budgets,
                   remaining_expenses>>

\* lines 149-176: the projection is made and write_budget overwrites the
\* workbook when the writer is closed; pandas and the file system can raise
\* before that, which leaves the workbook as it was
WriteBudget ==
    /\ pc = "summarized"
    /\ LET r == make_projection_dict(projection_list, balance, this_year)
       IN  /\ projection_dict' = r[1]
           /\ monthly_sums_dict' = r[2]
    /\ ideal_dict' = make_projection_dict(find_ideal(projection_list, today, this_year), 0,
                                          this_year + 1)[1]
    /\ remaining_expenses' = calculate_remaining_expenses_from_sheets(sheets, category_types, this_year)
    /\ \E closed \in BOOLEAN :
        IF closed
        THEN /\ written' = TRUE
             /\ sheets' = budgets
             /\ pc' = "done"
             /\ UNCHANGED failure
        ELSE /\ pc' = "failed"
             /\ failure' = Failure("write", Blank)
             /\ UNCHANGED <<written, sheets>>
    /\ UNCHANGED <<today, this_year, transactions, sumsVars, parseVars, projection_list, balance,
                   ledgerVars, clock, archive, categories, budgets, missing_budgets, diff_outs>>

NextUpdate == Archive \/ ReadWorkbook \/ ParseCategory \/ Summarize \/ WriteBudget

SpecUpdate == InitUpdate /\ [][NextUpdate]_vars

-----------------------------------------------------------------------------
(* The archive: update_budget run again, at a later time of the same day,  *)
(* after a run that raised and left the workbook to the user               *)

\* the times of day at which a run starts
Clocks == { <<10, minute, second>> : minute \in 0..MaxMinute, second \in {5, 6} }

\* time a is earlier than time b
ClockLess(a, b) ==
    \/ a[1] < b[1]
    \/ a[1] = b[1] /\ a[2] < b[2]
    \/ a[1] = b[1] /\ a[2] = b[2] /\ a[3] < b[3]

\* the workbooks of the reruns: category A with one of its sheets
ArchiveWorkbooks == { (CatA :> a) : a \in SheetsOfA }

InitArchive ==
    /\ InitLedgerVars
    /\ today = <<2024, 2, 15>>
    /\ this_year = 2024
    /\ transactions = TransactionsOf(<<>>)
    /\ pc = "start"
    /\ category = None
    /\ monthly_sums = <<>>
    /\ expense = <<>>
    /\ spent = <<>>
    /\ remaining = <<>>
    /\ category_types = CategoryTypesOf("Other", "Other")
    /\ expenses \in Sheets("Other")
    /\ category_budget = EmptyDict
    /\ parsed = NoResult
    /\ previous = NoResult
    /\ projection_list = NoProjection
    /\ balance = 10
    /\ projection_dict = EmptyDict
    /\ monthly_sums_dict = EmptyDict
    /\ ideal_dict = EmptyDict
    /\ sheets \in ArchiveWorkbooks
    /\ clock \in Clocks
    /\ archive = EmptyDict
    /\ written = FALSE
    /\ categories = {}
    /\ budgets = EmptyDict
    /\ missing_budgets = <<>>
    /\ diff_outs = EmptyDict
    /\ remaining_expenses = EmptyDict
    /\ failure = NoFailure

\* update_budget is called again at a later time, on the workbook as the
\* user has left it after the run that raised
StartRun ==
    /\ pc = "failed"
    /\ \E time \in Clocks : ClockLess(clock, time) /\ clock' = time
    /\ sheets' \in ArchiveWorkbooks
    /\ pc' = "start"
    /\ category' = None
    /\ category_budget' = EmptyDict
    /\ parsed' = NoResult
    /\ projection_list' = NoProjection
    /\ categories' = {}
    /\ budgets' = EmptyDict
    /\ missing_budgets' = <<>>
    /\ diff_outs' = EmptyDict
    /\ failure' = NoFailure
    /\ UNCHANGED <<today, this_year, transactions, monthly_sums, expense, spent, remaining,
                   category_types, expenses, previous, balance, projection_dict, monthly_sums_dict,
                   ideal_dict, ledgerVars, archive, written, remaining_expenses>>

NextArchive == NextUpdate \/ StartRun

SpecArchive == InitArchive /\ [][NextArchive]_vars

-----------------------------------------------------------------------------
(* The ledger functions: remove_budget_integers applied to a sheet as read, *)
(* get_reconciled_budget and get_forward_budget applied to the coerced      *)
(* ledger, get_year_projection applied to the forward rows                  *)

\* what a monetary cell of a sheet can hold: 0.0, -7.0, 4, '2', 'x', None, '',
\* and an int beyond the range of a float
RawAmounts == { Cell(0), Cell(-7), PyInt(4), PyStr(<<50>>), PyStr(S_x), PyNone, Blank, PyBigInt }

\* raw ledger rows: (amount, R)
RawRows == RawAmounts \X { Blank, S_x }

\* the date of the i-th row of a raw ledger
RawDate(i) == <<2024, 3 * ((i - 1) % 4) + 1, 5>>

RawLedger(rows, amount_key) ==
    [k \in {"Date", "Desc.", amount_key, "R", "Next Year", "Note"} |->
        [i \in 1..Len(rows) |->
            CASE k = "Date" -> RawDate(i)
              [] k = "Desc." -> S_Rent
              [] k = amount_key -> rows[i][1]
              [] k = "R" -> rows[i][2]
              [] k = "Next Year" -> PyInt(1)
              [] k = "Note" -> Blank]]

RawLedgers == { RawLedger(rows, key) : rows \in SeqsUpTo(RawRows, MaxRows), key \in {"Payment", "This Year"} }

\* actual monthly sums as get_monthly_sums returns them
ActualSums ==
    { <<>>,
      << <<<<2024, 1, 31>>, -5>>, <<<<2024, 2, 29>>, 0>> >>,
      << <<<<2023, 12, 31>>, 0>>, <<<<2024, 1, 31>>, 3>>, <<<<2024, 2, 29>>, -2>> >> }

InitLedger ==
    /\ InitUpdateVars
    /\ today = <<2024, 2, 15>>
    /\ this_year = 2024
    /\ transactions = TransactionsOf(<<>>)
    /\ pc = "start"
    /\ category = CatA
    /\ monthly_sums \in ActualSums
    /\ expense = <<>>
    /\ spent = <<>>
    /\ remaining = <<>>
    /\ category_types = CategoryTypes("Other")
    /\ expenses = EmptyDict
    /\ category_budget = EmptyDict
    /\ parsed = NoResult
    /\ previous = NoResult
    /\ projection_list = NoProjection
    /\ balance = 0
    /\ projection_dict = EmptyDict
    /\ monthly_sums_dict = EmptyDict
    /\ ideal_dict = EmptyDict
    /\ arg_budget \in RawLedgers
    /\ ret_reconciled = EmptyDict
    /\ ret_forward = EmptyDict
    /\ ret_fixed = NotFixed
    /\ ret_projection = <<>>

RemoveBudgetIntegers ==
    /\ pc = "start"
    /\ IF remove_budget_integers_raises(arg_budget)
       THEN /\ ret_fixed' = [raised |-> TRUE, error |-> "OverflowError", budget |-> EmptyDict]
            /\ pc' = "failed"
       ELSE /\ ret_fixed' = [raised |-> FALSE, error |-> "", budget |-> remove_budget_integers(arg_budget)]
            /\ pc' = "fixed"
    /\ UNCHANGED <<today, this_year, transactions, sumsVars, parseVars, projVars, updateVars,
                   arg_budget, ret_reconciled, ret_forward, ret_projection>>

GetReconciledBudget ==
    /\ pc = "fixed"
    /\ ret_reconciled' = get_reconciled_budget(ret_fixed.budget)
    /\ pc' = "reconciled"
    /\ UNCHANGED <<today, this_year, transactions, sumsVars, parseVars, projVars, updateVars,
                   arg_budget, ret_fixed, ret_forward, ret_projection>>

GetForwardBudget ==
    /\ pc = "reconciled"
    /\ ret_forward' = get_forward_budget(ret_fixed.budget)
    /\ pc' = "forward"
    /\ UNCHANGED <<today, this_year, transactions, sumsVars, parseVars, projVars, updateVars,
                   arg_budget, ret_fixed, ret_reconciled, ret_projection>>

GetYearProjection ==
    /\ pc = "forward"
    /\ ret_projection' = get_year_projection(category, ret_forward, monthly_sums)
    /\ pc' = "projected"
    /\ UNCHANGED <<today, this_year, transactions, sumsVars, parseVars, projVars, updateVars,
                   arg_budget, ret_fixed, ret_reconciled, ret_forward>>

NextLedger == RemoveBudgetIntegers \/ GetReconciledBudget \/ GetForwardBudget \/ GetYearProjection

SpecLedger == InitLedger /\ [][NextLedger]_vars

-----------------------------------------------------------------------------
(* The remaining-expense table: calculate_remaining_expenses_from_sheets    *)
(* applied to a workbook with one category sheet                            *)

\* the rows of the sheets: (Date, Remaining, Payment, This Year, Next Year)
YearRows ==
    { << <<2024, 3, 5>>, Cell(-1), Cell(-7), PyInt(4), Cell(0) >>,
      << <<2025, 1, 5>>, Cell(-2), Cell(-3), Cell(-5), Cell(-3) >>,
      << Blank, PyStr(S_x), PyNone, Cell(-2), Blank >>,
      << <<2024, 6, 5>>, PyNone, PyStr(<<50>>), Cell(-7), Cell(0) >> }

\* a sheet with the given columns
YearSheet(rows, columns) ==
    [k \in columns |->
        Column(rows, CASE k = "Date" -> 1 [] k = "Remaining" -> 2 [] k = "Payment" -> 3
                       [] k = "This Year" -> 4 [] k = "Next Year" -> 5)]

YearSheets ==
    { YearSheet(rows, columns) : rows \in SeqsUpTo(YearRows, MaxRows),
                                 columns \in SUBSET {"Date", "Remaining", "Payment", "This Year", "Next Year"} }

InitRemaining ==
    /\ InitLedgerVars
    /\ today = <<2024, 2, 15>>
    /\ this_year = 2024
    /\ transactions = TransactionsOf(<<>>)
    /\ pc = "start"
    /\ category = CatA
    /\ monthly_sums = <<>>
    /\ expense = <<>>
    /\ spent = <<>>
    /\ remaining = <<>>
    /\ category_types \in {CategoryTypes("Other"), CategoryTypes("Quarterly")}
    /\ expenses = EmptyDict
    /\ category_budget = EmptyDict
    /\ parsed = NoResult
    /\ previous = NoResult
    /\ projection_list = NoProjection
    /\ balance = 0
    /\ projection_dict = EmptyDict
    /\ monthly_sums_dict = EmptyDict
    /\ ideal_dict = EmptyDict
    /\ sheets \in { (CatA :> df_category) : df_category \in YearSheets }
    /\ clock = <<10, 0, 5>>
    /\ archive = EmptyDict
    /\ written = FALSE
    /\ categories = {}
    /\ budgets = EmptyDict
    /\ missing_budgets = <<>>
    /\ diff_outs = EmptyDict
    /\ remaining_expenses = EmptyDict
    /\ failure = NoFailure

CalculateRemainingExpenses ==
    /\ pc = "start"
    /\ remaining_expenses' = calculate_remaining_expenses_from_sheets(sheets, category_types, this_year)
    /\ pc' = "remaining"
    /\ UNCHANGED <<today, this_year, transactions, sumsVars, parseVars, projVars, ledgerVars,
                   sheets, clock, archive, written, categories, budgets, missing_budgets,
                   diff_outs, failure>>

NextRemaining == CalculateRemainingExpenses

SpecRemaining == InitRemaining /\ [][NextRemaining]_vars

-----------------------------------------------------------------------------
(* Properties of the aggregator *)

\* the number of a month on the time line, and the last day of the month with that number
MonthIndex(d) == Year(d) * 12 + Month(d) - 1
LastDayOfIndex(k) == <<k \div 12, (k % 12) + 1, DaysInMonth(k \div 12, (k % 12) + 1)>>

\* the rows of the stream that pass the category filter
Matching(cat) ==
    {d \in 1..Len(transactions.Date) : cat = None \/ transactions.Category[d] = cat}

\* C1: for non-empty dates get_monthly_sums returns exactly one bucket per
\* calendar month from the month of the earliest date to the month of the
\* latest date, ascending, keyed by the last day of the month; a month with
\* no counted row has the sum 0.0
C1_ContiguousMonthEnds ==
    (pc = "get_monthly_sums" /\ transactions.Date # <<>>) =>
        LET idx == {MonthIndex(transactions.Date[d]) : d \in 1..Len(transactions.Date)}
            lo == CHOOSE k \in idx : \A j \in idx : k <= j
            hi == CHOOSE k \in idx : \A j \in idx : j <= k
        IN  /\ Len(monthly_sums) = hi - lo + 1
            /\ \A i \in 1..Len(monthly_sums) :
                /\ monthly_sums[i][1] = LastDayOfIndex(lo + i - 1)
                /\ (\A d \in Matching(category) :
                        MonthIndex(transactions.Date[d]) # lo + i - 1) => monthly_sums[i][2] = 0

\* C1 witness: a span over the turn of the year with an empty month inside
C1_Witness ==
    /\ pc = "get_monthly_sums"
    /\ Len(monthly_sums) = 3
    /\ monthly_sums[1] # <<<<2023, 12, 31>>, 0>>
    /\ monthly_sums[2] = <<<<2024, 1, 31>>, 0>>
    /\ monthly_sums[3][1] = <<2024, 2, 29>>

\* C2: the bucket sums of get_monthly_sums add up to the sum of the amounts
\* of the rows that match the category filter (all rows without a filter)
C2_SumPreserved ==
    (pc = "get_monthly_sums" /\ transactions.Date # <<>>) =>
        SumSeq([i \in 1..Len(monthly_sums) |-> monthly_sums[i][2]])
            = SumSeq([d \in 1..Len(transactions.Date) |->
                        IF d \in Matching(category) THEN transactions.Amount[d][1] ELSE 0])

\* C2 witness: a filtered call that counts one row and skips another
C2_Witness ==
    /\ pc = "get_monthly_sums"
    /\ category = CatA
    /\ Len(transactions.Date) = 2
    /\ transactions.Category = <<CatA, CatB>>
    /\ SumSeq([i \in 1..Len(monthly_sums) |-> monthly_sums[i][2]]) = -2

\* the quarter (0..3) of today's month
ThisQuarter == (Month(today) - 1) \div 3

\* C3: a quarter before the current one has remaining 0.0, a quarter after
\* the current one has remaining plan[q], whatever was spent in it
C3_PastZeroFuturePlan ==
    pc = "get_quarterly_sums" =>
        \A k \in 1..4 :
            /\ k - 1 < ThisQuarter => remaining[k] = <<k - 1, 0>>
            /\ k - 1 > ThisQuarter => remaining[k] = <<k - 1, expense[k]>>

\* C3 witness: money was spent in a closed quarter and in a future quarter
\* that both have a plan
C3_Witness ==
    /\ pc = "get_quarterly_sums"
    /\ ThisQuarter = 1
    /\ spent[1][2] # 0 /\ expense[1] # 0 /\ remaining[1][2] = 0
    /\ spent[4][2] # 0 /\ expense[4] # 0 /\ remaining[4][2] = expense[4]

\* C4 as claimed: in the current quarter remaining is max(0, plan - spent),
\* never negative
C4_Original ==
    pc = "get_quarterly_sums" =>
        /\ remaining[ThisQuarter + 1][2]
             = Max(0, expense[ThisQuarter + 1] - spent[ThisQuarter + 1][2])
        /\ remaining[ThisQuarter + 1][2] >= 0

\* C4 amended: in the current quarter remaining is min(0, plan - spent),
\* never positive
C4_CurrentQuarterClampedNonPositive ==
    pc = "get_quarterly_sums" =>
        /\ remaining[ThisQuarter + 1][2]
             = Min(0, expense[ThisQuarter + 1] - spent[ThisQuarter + 1][2])
        /\ remaining[ThisQuarter + 1][2] <= 0

\* C4 witness: the plan of the current quarter is an expense that is not yet
\* fully spent
C4_Witness ==
    /\ pc = "get_quarterly_sums"
    /\ spent[ThisQuarter + 1][2] = -2
    /\ expense[ThisQuarter + 1] = -3
    /\ remaining[ThisQuarter + 1][2] = -1

-----------------------------------------------------------------------------
(* Properties of the parser *)

\* the type parse_budget dispatches the parsed category to
TypeOf(cat) ==
    IF InList(cat, category_types["Loan"]) THEN "Loan"
    ELSE IF InList(cat, category_types["Quarterly"]) THEN "Quarterly"
    ELSE IF InList(cat, category_types["Monthly"]) THEN "Monthly"
    ELSE IF InList(cat, category_types["Yearly"]) THEN "Yearly"
    ELSE "Other"

\* the sum of the category's transactions dated in the given calendar month
ActualIn(cat, y, m) ==
    SumSeq([d \in 1..Len(transactions.Date) |->
              IF transactions.Category[d] = cat /\ Year(transactions.Date[d]) = y
                 /\ Month(transactions.Date[d]) = m
              THEN CellVal(transactions.Amount[d]) ELSE 0])

\* the sum of all the category's transactions
ActualTotal(cat) ==
    SumSeq([d \in 1..Len(transactions.Date) |->
              IF transactions.Category[d] = cat THEN CellVal(transactions.Amount[d]) ELSE 0])

ParsedMonthly == pc = "parsed" /\ TypeOf(category) = "Monthly" /\ ~parsed.raised

\* C5: for a Monthly category remaining[m] is planned[m] for every month
\* after the current month and 0.0 for every month before it, whatever the
\* actual transaction sums are
C5_MonthlyPastZeroFuturePlanned ==
    ParsedMonthly =>
        \A m \in 1..12 :
            /\ m > Month(today) => parsed.budget["Remaining"][m] = category_budget["Planned"][m]
            /\ m < Month(today) => parsed.budget["Remaining"][m] = Cell(0)

\* C5 witness: in May, with money spent (the first bucket of the actual sums
\* is not zero) and a plan for January and for December
C5_Witness ==
    /\ ParsedMonthly
    /\ Month(today) = 5
    /\ parsed.budget["Spent"][1] # Cell(0)
    /\ category_budget["Planned"][1] # Cell(0)
    /\ parsed.budget["Remaining"][1] = Cell(0)
    /\ parsed.budget["Remaining"][12] = Cell(-12)

\* C6: for a Monthly category the remaining of the current month is
\* min(0, planned[m] - actual[m]), actual[m] being the category's transaction
\* sum of that calendar month; it is never positive
C6_CurrentMonthRemaining ==
    ParsedMonthly =>
        LET m == Month(today)
        IN  /\ parsed.budget["Remaining"][m]
                 = Cell(Min(0, CellVal(category_budget["Planned"][m])
                                 - ActualIn(category, Year(today), m)))
            /\ CellVal(parsed.budget["Remaining"][m]) <= 0

ParsedOk == pc = "parsed" /\ ~parsed.raised

\* the positions of the seed entries with a non-zero amount, in order
NonZeroSeeds == Ascending({k \in 1..Len(parsed.multi_year_projection) :
                              parsed.multi_year_projection[k][2] # 0})

GivenLedger ==
    IF category_budget = EmptyDict
    THEN [key \in {"Date", "Desc.", "This Year", "R", "Next Year", "Note"} |-> <<>>]
    ELSE category_budget

\* the rows of the given ledger that are not described as "Yearly"
PlainRows == {i \in 1..Len(GivenLedger["Desc."]) : GivenLedger["Desc."][i] # S_Yearly}

\* the plan of the category in the Expenses sheet
PlanOf(cat, column) == expenses[column][ExpenseIndex(cat, expenses)]

ParsedYearly == pc = "parsed" /\ TypeOf(category) = "Yearly" /\ ~parsed.raised

\* the rows of the returned ledger that are described as "Yearly"
YearlyRows == {j \in 1..Len(parsed.budget["Desc."]) : parsed.budget["Desc."][j] = S_Yearly}

\* C10: the This Year value of the synthetic "Yearly" row is
\* min(0, plan_this_year - (sum of the actual monthly sums + sum of This Year
\* over the forward rows)), its Next Year value is
\* min(0, plan_next_year - sum of the Next Year column), the sums taken over
\* the rows of the given ledger other than an earlier "Yearly" row; neither
\* value is positive
C10_YearlyRowLeftovers ==
    ParsedYearly =>
        \A j \in YearlyRows :
            LET forward_sum == SumSeq([i \in 1..Len(GivenLedger["This Year"]) |->
                                  IF i \in PlainRows /\ GivenLedger["R"][i] = Blank
                                  THEN CellVal(GivenLedger["This Year"][i]) ELSE 0])
                next_sum == SumSeq([i \in 1..Len(GivenLedger["Next Year"]) |->
                                  IF i \in PlainRows
                                  THEN CellVal(GivenLedger["Next Year"][i]) ELSE 0])
            IN  /\ parsed.budget["This Year"][j]
                     = Cell(Min(0, PlanOf(category, "This Year")
                                     - (ActualTotal(category) + forward_sum)))
                /\ parsed.budget["Next Year"][j]
                     = Cell(Min(0, PlanOf(category, "Next Year") - next_sum))
                /\ CellVal(parsed.budget["This Year"][j]) <= 0
                /\ CellVal(parsed.budget["Next Year"][j]) <= 0

\* C10 witness: a ledger with a reconciled and a forward row and actual
\* spending, this year's leftover negative and next year's clamped to 0.0
C10_Witness ==
    /\ ParsedYearly
    /\ ActualTotal(category) # 0
    /\ \E i \in PlainRows : GivenLedger["R"][i] # Blank
    /\ \E i \in PlainRows : GivenLedger["R"][i] = Blank
                            /\ GivenLedger["This Year"][i] # Cell(0)
    /\ Cardinality(YearlyRows) = 1
    /\ \A j \in YearlyRows : /\ CellVal(parsed.budget["This Year"][j]) < 0
                             /\ parsed.budget["Next Year"][j] = Cell(0)
    /\ PlanOf(category, "Next Year")
         - SumSeq([i \in 1..Len(GivenLedger["Next Year"]) |->
                     CellVal(GivenLedger["Next Year"][i])]) > 0

\* C26: the ledger returned for a Yearly category has exactly one row
\* described as "Yearly", dated December 31 of the year of the run, however
\* many such rows the given ledger had; the other rows of the given ledger come
\* first, in their order and with their descriptions as parse_budget renames
\* them, and the cells after the "Yearly" row are the padding of the columns
C26_OneYearlyRow ==
    ParsedYearly =>
        LET n == Cardinality(PlainRows)
        IN  /\ YearlyRows = {n + 1}
            /\ parsed.budget["Date"][n + 1] = <<Year(today), 12, 31>>
            /\ \A key \in DOMAIN GivenLedger :
                  /\ SubSeq(parsed.budget[key], 1, n)
                       = Pick(RenameDescriptions(category, GivenLedger)[key], Ascending(PlainRows))
                  /\ \A j \in (n + 2)..Len(parsed.budget[key]) : parsed.budget[key][j] = Blank

\* C26 witness: the given ledger has a "Yearly" row before another row
C26_Witness ==
    /\ ParsedYearly
    /\ Len(GivenLedger["Desc."]) = 2
    /\ GivenLedger["Desc."][1] = S_Yearly
    /\ PlainRows = {2}
    /\ YearlyRows = {2}

\* C9: parse_budget applied to the ledger a parse_budget call returned, with
\* the same transactions, type map, expense plan and year, returns the same
\* Actual, Planned and Remaining columns
C9_ParseIdempotent ==
    pc = "reparsed" =>
        /\ ~parsed.raised
        /\ \A col \in {"Actual", "Planned", "Remaining"} \cap DOMAIN previous.budget :
            /\ col \in DOMAIN parsed.budget
            /\ parsed.budget[col] = previous.budget[col]

\* C23: for a Monthly category the Spent column has 12 entries and its
\* entry for calendar month m is the sum of the category's transactions
\* dated in month m of the current year, 0.0 for a month without any
C23_SpentByCalendarMonth ==
    ParsedMonthly =>
        /\ Len(parsed.budget["Spent"]) = 12
        /\ \A m \in 1..12 : parsed.budget["Spent"][m] = Cell(ActualIn(category, Year(today), m))

ParsedQuarterly == pc = "parsed" /\ TypeOf(category) = "Quarterly" /\ ~parsed.raised

\* the sum of the category's transactions dated in quarter q of year y
ActualInQuarter(cat, y, q) ==
    ActualIn(cat, y, 3 * q - 2) + ActualIn(cat, y, 3 * q - 1) + ActualIn(cat, y, 3 * q)

\* C30: for a Quarterly category parsed for budget year Y the Spent entry of
\* quarter q is the sum of the category's transactions dated in quarter q of
\* year Y; a transaction dated in another year is not counted
C30_SpentOfBudgetYear ==
    ParsedQuarterly =>
        \A q \in 1..4 : parsed.budget["Spent"][q] = Cell(ActualInQuarter(category, this_year, q))

-----------------------------------------------------------------------------
(* Properties of the projection builder *)

\* C8: the Balance of the k-th event of the returned projection is the
\* starting balance plus the amounts of the events 1..k of that projection
C8_RunningBalance ==
    pc = "make_projection_dict" =>
        \A k \in 1..Len(projection_dict["Amount"]) :
            projection_dict["Balance"][k]
                = balance + SumSeq(SubSeq(projection_dict["Amount"], 1, k))

\* C8 witness: three events given out of date order, threaded from a
\* starting balance that is not zero
C8_Witness ==
    /\ pc = "make_projection_dict"
    /\ balance = 10
    /\ Len(projection_dict["Date"]) = 3
    /\ projection_dict["Date"] # projection_list[1]
    /\ projection_dict["Balance"] = <<13, 11, 8>>

\* the k-th event of the returned projection as it was sorted, that is with
\* the balance 0.0 every event is given with
SortedEvent(k) ==
    <<projection_dict["Date"][k], projection_dict["Desc."][k], projection_dict["Amount"][k],
      projection_dict["Category"][k], 0, projection_dict["Note"][k]>>

\* the number of times an event is in the given list, and in the returned one
TimesGiven(e) == Cardinality({i \in 1..Len(projection_list[1]) : Zip(projection_list)[i] = e})
TimesReturned(e) == Cardinality({k \in 1..Len(projection_dict["Date"]) : SortedEvent(k) = e})

\* C21: the returned projection holds every given event as many times as it
\* was given and no other, in non-decreasing lexicographic order of (date,
\* description, amount, category, balance, note) as given; the dates are
\* non-decreasing along the list
C21_SortedPermutation ==
    pc = "make_projection_dict" =>
        LET n == Len(projection_list[1])
        IN  /\ \A key \in DOMAIN projection_dict : Len(projection_dict[key]) = n
            /\ \A i \in 1..n : TimesReturned(Zip(projection_list)[i]) = TimesGiven(Zip(projection_list)[i])
            /\ \A k \in 1..n : TimesGiven(SortedEvent(k)) > 0
            /\ \A k \in 1..(n - 1) :
                /\ ~TupleLess(SortedEvent(k + 1), SortedEvent(k))
                /\ ~DateLess(projection_dict["Date"][k + 1], projection_dict["Date"][k])

\* three events, one of them given twice, given out of order
C21_Witness ==
    /\ pc = "make_projection_dict"
    /\ Len(projection_list[1]) = 3
    /\ Zip(projection_list)[1] = Zip(projection_list)[3]
    /\ DateLess(projection_list[1][2], projection_list[1][1])
    /\ SortedEvent(2) = SortedEvent(3)
    /\ SortedEvent(1) = Zip(projection_list)[2]

\* the k-th event of the ideal projection with the balance it was given with
IdealEvent(k) ==
    <<ideal_dict["Date"][k], ideal_dict["Desc."][k], ideal_dict["Amount"][k],
      ideal_dict["Category"][k], 0, ideal_dict["Note"][k]>>

\* a forecast event of the year after the budget year
IsIdeal(e) == Year(e[1]) = this_year + 1 /\ Contains(e[2], S_Forecast)

\* C24: the ideal projection holds every master-projection event that is
\* dated in the calendar year after the budget year and described with
\* "Forecast:", as many times as the master projection holds it, and no
\* other event; its balances are the running sums of its amounts from 0.0
C24_IdealProjection ==
    pc = "find_ideal" =>
        LET n == Len(ideal_dict["Date"])
        IN  /\ \A k \in 1..n : IsIdeal(IdealEvent(k))
            /\ \A i \in 1..Len(projection_dict["Date"]) :
                IsIdeal(SortedEvent(i)) =>
                    Cardinality({k \in 1..n : IdealEvent(k) = SortedEvent(i)})
                        = TimesReturned(SortedEvent(i))
            /\ \A k \in 1..n :
                ideal_dict["Balance"][k] = SumSeq(SubSeq(ideal_dict["Amount"], 1, k))

-----------------------------------------------------------------------------
(* Properties of the monthly table *)

\* the amount column of a ledger of the given type
AmountKey(t) == IF t = "Loan" THEN "Payment" ELSE "This Year"

\* the sum of the amount column over the rows of the ledger dated in the
\* month of x, all of them or the reconciled ones only
LedgerSumIn(ledger, key, x, reconciled_only) ==
    IF ledger = EmptyDict THEN 0
    ELSE
    SumSeq([j \in 1..Len(ledger["Date"]) |->
              IF /\ Year(ledger["Date"][j]) = Year(x)
                 /\ Month(ledger["Date"][j]) = Month(x)
                 /\ (reconciled_only => ledger["R"][j] # Blank)
              THEN CellVal(ledger[key][j]) ELSE 0])

ParsedTable == ParsedOk /\ TypeOf(category) \in {"Loan", "Other"}

ActualMonths == {MonthIndex(transactions.Date[d]) : d \in 1..Len(transactions.Date)}
PlannedMonths ==
    IF GivenLedger["Date"] = <<>> THEN {MonthIndex(<<this_year, m, 1>>) : m \in 1..12}
    ELSE {MonthIndex(GivenLedger["Date"][j]) : j \in 1..Len(GivenLedger["Date"])}

SetMin(S) == CHOOSE x \in S : \A y \in S : x <= y
SetMax(S) == CHOOSE x \in S : \A y \in S : y <= x

\* the month ends of the returned table, without the padding
TableMonths == SelectSeq(parsed.budget["End of Month"], LAMBDA x : x # Blank)

\* C22: the End of Month column of a Loan or Default category holds the
\* month ends from the earlier of the first actual month and the first
\* planned month to the later of the last actual month and the last planned
\* month, one row a month, so every month of a ledger row has a row
C22_TableSpansActualAndPlanned ==
    ParsedTable =>
        LET first == SetMin(ActualMonths \cup PlannedMonths)
            last == SetMax(ActualMonths \cup PlannedMonths)
        IN  /\ TableMonths = [i \in 1..(last - first + 1) |-> LastDayOfIndex(first + i - 1)]
            /\ \A j \in 1..Len(GivenLedger["Date"]) :
                \E i \in 1..Len(TableMonths) :
                    MonthIndex(TableMonths[i]) = MonthIndex(GivenLedger["Date"][j])

-----------------------------------------------------------------------------
(* Properties of the malformed ledgers *)

\* the parse ended with an Exception whose message has the category as a word
RaisedNaming(cat) == parsed.raised /\ InList(cat, Split(parsed.message))

ReturnedNothing ==
    /\ parsed.budget = EmptyDict
    /\ parsed.year_projection = <<>>
    /\ parsed.forecast = <<>>

LoanWithoutPayment ==
    pc = "parsed" /\ TypeOf(category) = "Loan" /\ "Payment" \notin DOMAIN category_budget

\* C12: parsing a Loan category whose ledger has no Payment column fails
\* with an error whose message names the category and the Payment field, and
\* returns no ledger, projection or forecast
C12_LoanWithoutPaymentFails ==
    LoanWithoutPayment =>
        /\ RaisedNaming(category)
        /\ InList(S_Payment, Split(parsed.message))
        /\ ReturnedNothing

\* C12 witness: a Loan sheet with a This Year column in the place of Payment
C12_Witness ==
    /\ LoanWithoutPayment
    /\ "This Year" \in DOMAIN category_budget
    /\ Len(category_budget["Date"]) = 1

DefaultWithoutDate ==
    pc = "parsed" /\ TypeOf(category) = "Other" /\ "Date" \notin DOMAIN category_budget

SixColumns == {"Date", "Desc.", "This Year", "R", "Next Year", "Note"}

C13_WitnessFails ==
    /\ DefaultWithoutDate
    /\ "Desc." \in DOMAIN category_budget

YearlyWithoutPlan ==
    /\ pc = "parsed"
    /\ TypeOf(category) = "Yearly"
    /\ ~InList(category, expenses["Category"])

\* C14: parsing a Yearly category that has no entry in the Expenses sheet
\* fails with an error naming the category: no ledger is returned for it
C14_YearlyWithoutPlanFails ==
    YearlyWithoutPlan => RaisedNaming(category) /\ ReturnedNothing

\* C14 witness: a well-formed Yearly ledger with a row to plan, and money
\* spent, for a category the Expenses sheet does not list
C14_Witness ==
    /\ YearlyWithoutPlan
    /\ "Date" \in DOMAIN category_budget
    /\ Len(category_budget["Date"]) = 2
    /\ ActualTotal(category) # 0

-----------------------------------------------------------------------------
(* Properties of the ledger functions *)

\* the rows of a ledger, each a record of its cells by column
RowsOf(ledger) == [i \in 1..Len(ledger["R"]) |-> [k \in DOMAIN ledger |-> ledger[k][i]]]

Rectangular(ledger) == \A k \in DOMAIN ledger : Len(ledger[k]) = Len(ledger["R"])

\* C18: for a ledger with a non-empty R column, the rows of
\* get_reconciled_budget are the rows with a non-empty R flag and the rows of
\* get_forward_budget are the rows with an empty R flag, each in the order of
\* the ledger and each with the cells of all its columns, so every row is in
\* exactly one of the two results
C18_ReconciledForwardPartition ==
    (pc \in {"forward", "projected"} /\ ret_fixed.budget["R"] # <<>>) =>
        LET rows == RowsOf(ret_fixed.budget)
        IN  /\ DOMAIN ret_reconciled = DOMAIN ret_fixed.budget
            /\ DOMAIN ret_forward = DOMAIN ret_fixed.budget
            /\ Rectangular(ret_reconciled)
            /\ Rectangular(ret_forward)
            /\ RowsOf(ret_reconciled) = SelectSeq(rows, LAMBDA r : r["R"] # Blank)
            /\ RowsOf(ret_forward) = SelectSeq(rows, LAMBDA r : r["R"] = Blank)
            /\ Len(ret_reconciled["R"]) + Len(ret_forward["R"]) = Len(rows)

\* a ledger of two rows, the first reconciled and the second not, has been split
C18_Witness ==
    /\ pc = "forward"
    /\ Len(ret_fixed.budget["R"]) = 2
    /\ ret_fixed.budget["R"][1] # Blank
    /\ ret_fixed.budget["R"][2] = Blank
    /\ ret_reconciled["Date"] = <<RawDate(1)>>
    /\ ret_forward["Date"] = <<RawDate(2)>>

\* a number: a float or an int
IsNumber(val) == Len(val) = 1 \/ (Len(val) = 2 /\ val[1] \in {"int", "bigint"})

\* a str that reads as a number
IsNumericString(val) == Len(val) = 2 /\ val[1] = "str" /\ ParseFloat(val[2])[1] = "float"

\* C19: remove_budget_integers never fails; in every monetary column of the
\* ledger a number or a numeric string becomes the equal float and any other
\* value becomes 0.0, the column keeping its length and order; the other
\* columns are returned unchanged
C19_CoercionNeverFails ==
    pc \in {"fixed", "failed"} =>
        /\ ~ret_fixed.raised
        /\ DOMAIN ret_fixed.budget = DOMAIN arg_budget
        /\ \A k \in DOMAIN arg_budget :
            IF k \in {"Amount", "Payment", "Planned", "This Year", "Next Year"}
            THEN /\ Len(ret_fixed.budget[k]) = Len(arg_budget[k])
                 /\ \A i \in 1..Len(arg_budget[k]) :
                        LET val == arg_budget[k][i]
                            out == ret_fixed.budget[k][i]
                        IN  IF Len(val) = 1 THEN out = val
                            ELSE IF Len(val) = 2 /\ val[1] = "int" THEN out = Cell(val[2])
                            ELSE IF IsNumericString(val) THEN out = Cell(ParseFloat(val[2])[2])
                            ELSE ~IsNumber(val) /\ out = Cell(0)
            ELSE ret_fixed.budget[k] = arg_budget[k]

\* the events of the non-zero actual sums and of the non-zero forward rows
NonZeroSums == SelectSeq(monthly_sums, LAMBDA x : x[2] # 0)
ForwardKey == IF "Payment" \in DOMAIN ret_forward THEN "Payment" ELSE "This Year"
NonZeroRows == SelectSeq(RowsOf(ret_forward), LAMBDA r : r[ForwardKey] # Cell(0))

\* C20: get_year_projection returns one event for each non-zero actual
\* monthly sum, in their order, followed by one event for each forward row
\* of non-zero amount, in their order; no event has amount 0.0 and every
\* event carries the category
C20_YearProjectionNonZero ==
    pc = "projected" =>
        /\ Len(ret_projection) = Len(NonZeroSums) + Len(NonZeroRows)
        /\ \A j \in 1..Len(NonZeroSums) :
            /\ ret_projection[j][1] = NonZeroSums[j][1]
            /\ ret_projection[j][3] = NonZeroSums[j][2]
        /\ \A j \in 1..Len(NonZeroRows) :
            /\ ret_projection[Len(NonZeroSums) + j][1] = NonZeroRows[j]["Date"]
            /\ ret_projection[Len(NonZeroSums) + j][3] = CellVal(NonZeroRows[j][ForwardKey])
            /\ ret_projection[Len(NonZeroSums) + j][6] = NonZeroRows[j]["Note"]
        /\ \A j \in 1..Len(ret_projection) :
            /\ ret_projection[j][3] # 0
            /\ ret_projection[j][4] = category

\* a zero sum and a zero forward row were left out, a non-zero sum and a
\* non-zero forward row were kept
C20_Witness ==
    /\ pc = "projected"
    /\ Len(NonZeroSums) > 0
    /\ Len(NonZeroSums) < Len(monthly_sums)
    /\ Len(NonZeroRows) > 0
    /\ Len(NonZeroRows) < Len(ret_forward["R"])
    /\ Len(ret_projection) = Len(NonZeroSums) + Len(NonZeroRows)

-----------------------------------------------------------------------------
(* Properties of the run *)

\* the category sheets of the workbook before the run
PreRunSheets == IF archive = EmptyDict THEN sheets ELSE archive[back_up_xls(today, clock)]

\* the categories of the transaction stream without a sheet of their own
\* and without an excluded name
SheetlessCategories ==
    {transactions.Category[d] : d \in 1..Len(transactions.Category)} \ (excluded \cup DOMAIN PreRunSheets)

\* the months in which the category's transactions have a non-zero sum
NonZeroMonths(cat) ==
    {k \in {MonthIndex(transactions.Date[d]) : d \in 1..Len(transactions.Date)} :
        ActualIn(cat, k \div 12, (k % 12) + 1) # 0}

\* the positions of the category's events in the master projection
EventsOf(cat) == {i \in 1..Len(projection_list[4]) : projection_list[4][i] = cat}

\* C15: for every category of the transaction stream that has no sheet and
\* no excluded name, the run does not end with an error of its parse, and
\* the ledger given to its parse is the ledger of six empty columns, and once
\* the loop is over the category has a returned ledger, is listed in
\* missing_budgets, and has in the master projection exactly one event per
\* month of non-zero actual sum, with that sum as amount
C15_MissingSheetCategory ==
    \A cat \in SheetlessCategories :
        /\ ~(pc = "failed" /\ failure.step = "parse" /\ category = cat)
        /\ category = cat => category_budget = EmptyLedger
        /\ pc \in {"summarized", "done"} =>
            /\ cat \in DOMAIN budgets
            /\ InList(cat, missing_budgets)
            /\ Cardinality(EventsOf(cat)) = Cardinality(NonZeroMonths(cat))
            /\ \A k \in NonZeroMonths(cat) :
                \E i \in EventsOf(cat) :
                    /\ projection_list[1][i] = LastDayOfIndex(k)
                    /\ projection_list[3][i] = ActualIn(cat, k \div 12, (k % 12) + 1)

\* C16: write_budget overwrites the workbook only when the archive already
\* holds a copy of the contents the workbook has at that moment
C16_ArchiveBeforeWrite ==
    [][(written' /\ ~written) => (\E name \in DOMAIN archive : archive[name] = sheets)]_vars

\* the workbook has been overwritten with other contents and the archive
\* holds the contents it had before
C16_Witness ==
    /\ pc = "done"
    /\ written
    /\ archive # EmptyDict
    /\ PreRunSheets # sheets
    /\ CatA \in DOMAIN PreRunSheets

\* C17: when the parse of a category raises, the run ends there with that
\* error: write_budget is not reached and the workbook keeps its pre-run
\* contents, the category and those not yet visited get no result, and the
\* run takes no further step
C17_ParseErrorEndsRun ==
    /\ [](failure.step = "parse" =>
            /\ pc = "failed"
            /\ parsed.raised
            /\ failure.message = parsed.message
            /\ ~written
            /\ sheets = PreRunSheets
            /\ category \in categories
            /\ \A cat \in categories : cat \notin DOMAIN budgets)
    /\ [][failure.step # "parse"]_vars

\* the Loan sheet of A without a Payment column ended the run while B was
\* still to visit
C17_Witness ==
    /\ pc = "failed"
    /\ failure.step = "parse"
    /\ failure.message = PaymentMessage(CatA)
    /\ category = CatA
    /\ CatA \in DOMAIN sheets
    /\ CatB \in categories
    /\ ~written

\* the categories the loop visits
Visited == CategoriesOf(transactions, PreRunSheets) \ excluded

\* what parse_budget returns for a category of the run
ResultOf(cat) ==
    parse_budget(cat, LedgerOf(cat, PreRunSheets), transactions, expenses, category_types,
                 this_year, today)

\* the collected events when the categories are visited in the given order
RECURSIVE CollectedIn(_)
CollectedIn(order) ==
    IF order = <<>> THEN NoProjection
    ELSE Extend(CollectedIn(SubSeq(order, 1, Len(order) - 1)),
                CategoryEvents(order[Len(order)], PreRunSheets, transactions,
                               ResultOf(order[Len(order)])))

\* the visited categories in one fixed order
FixedOrder == SelectSeq(<<CatA, CatB>>, LAMBDA cat : cat \in Visited)

\* C25: whatever the order in which the loop visits the categories, a run
\* that completes returns for every category the ledger of its own parse, and
\* the sorted master projection with its running balances is the one of the
\* visit in one fixed order
C25_OrderIndependent ==
    pc = "done" =>
        /\ DOMAIN budgets = Visited
        /\ \A cat \in Visited : budgets[cat] = ResultOf(cat).budget
        /\ projection_dict = make_projection_dict(CollectedIn(FixedOrder), balance, this_year)[1]

\* a completed run that visited B before A, both with events
C25_Witness ==
    /\ pc = "done"
    /\ Visited = {CatA, CatB}
    /\ projection_list # CollectedIn(FixedOrder)
    /\ \E i \in 1..Len(projection_list[4]) : projection_list[4][i] = CatA
    /\ \E i \in 1..Len(projection_list[4]) : projection_list[4][i] = CatB
    /\ projection_list[4][1] = CatB

\* the run has gone through the summaries
Summarized == pc \in {"summarized", "done"}

ColumnTotal(column, rows) ==
    SumSeq([i \in 1..Len(sheets[category][column]) |->
               IF i \in rows /\ IsNumber(sheets[category][column][i])
               THEN (IF Len(sheets[category][column][i]) = 1 THEN sheets[category][column][i][1]
                     ELSE sheets[category][column][i][2])
               ELSE 0])

\* the rows of the sheet dated in the budget year
RowsOfThisYear ==
    {i \in 1..Len(sheets[category]["Date"]) :
        sheets[category]["Date"][i] # Blank /\ sheets[category]["Date"][i][1] = this_year}

\* C28: the estimate of the current year in the remaining-expense table is
\* the sum of the Remaining column of the category's sheet when it has one;
\* else, for a sheet with a Date column, the sum of Payment, or of This Year
\* without a Payment column, over the rows dated in the year; else the sum of
\* the whole This Year column; 0.0 without any of these columns
C28_CurrentYearEstimate ==
    pc = "remaining" =>
        remaining_expenses[category][1] =
            IF "Remaining" \in DOMAIN sheets[category]
            THEN ColumnTotal("Remaining", 1..Len(sheets[category]["Remaining"]))
            ELSE IF "Date" \in DOMAIN sheets[category]
            THEN (IF "Payment" \in DOMAIN sheets[category] THEN ColumnTotal("Payment", RowsOfThisYear)
                  ELSE IF "This Year" \in DOMAIN sheets[category]
                  THEN ColumnTotal("This Year", RowsOfThisYear)
                  ELSE 0)
            ELSE IF "This Year" \in DOMAIN sheets[category]
            THEN ColumnTotal("This Year", 1..Len(sheets[category]["This Year"]))
            ELSE 0

\* C28 witness: a sheet without a Remaining column, with Date, Payment and
\* This Year, a row dated in the year and a row dated in the next year
C28_Witness ==
    /\ pc = "remaining"
    /\ {"Date", "Payment", "This Year"} \subseteq DOMAIN sheets[category]
    /\ "Remaining" \notin DOMAIN sheets[category]
    /\ Len(sheets[category]["Date"]) = 2
    /\ RowsOfThisYear = {1}
    /\ remaining_expenses[category][1] = -7
    /\ ColumnTotal("Payment", {1, 2}) = -10
    /\ ColumnTotal("This Year", {1}) = 4

\* C29: the step of a run that copies the workbook into archive/ adds one
\* file to it and leaves the files that were there as they were, the runs
\* being made one after the other at different times
C29_ArchiveAppendOnly ==
    [][(pc = "start" /\ pc' = "archived") =>
          /\ Cardinality(DOMAIN archive') = Cardinality(DOMAIN archive) + 1
          /\ \A name \in DOMAIN archive :
                name \in DOMAIN archive' /\ archive'[name] = archive[name]]_vars

=============================================================================
